---- MODULE Spec2Model ----
(***************************************************************************)
(* A model of the Jacobin JVM core: the class registry (instantiate.go)    *)
(* and the bytecode interpreter (run.go).                                  *)
(*                                                                         *)
(* Conventions.                                                            *)
(*  - A Go string is a sequence of tokens: a descriptor is tokenised       *)
(*    character by character (<<"[", "I">>), a name is one token           *)
(*    (<<"x">>), so that s[0] and strings.HasPrefix test the first token.  *)
(*  - Go slices are 0-based: At(s, i) is s[i].                             *)
(*  - An interface{} value is a tagged record: int64, float64, a pointer   *)
(*    to a heap object, or the nil interface.                              *)
(*  - A float is a dyadic rational held as an integer count of FUnit-ths.  *)
(*  - TLC's integers have 32 bits, so the word sizes are scaled: a JVM int *)
(*    has IntBits bits and a Go int64 has LongBits bits (IntBits <         *)
(*    LongBits); the code never mentions either width.                    *)
(***************************************************************************)
EXTENDS Integers, Sequences, FiniteSets, TLC

VARIABLES
    MethArea,       \* classloader method area: class name -> status
    bytesRequested, \* class name -> number of requests made to the class-bytes source
    Statics,        \* classloader.Statics: "<class>.<field>" -> Static
    StaticsArray,   \* classloader.StaticsArray
    heap,           \* allocated objects; a reference is an index into heap
    clinitRuns,     \* class name -> number of runs of runInitializationBlock
    fatal,          \* codes handed to shutdown.Exit, in order
    thrown,         \* exceptions handed to exceptions.Throw, in order
    ArrayAddressList, \* globals' ArrayAddressList: the arrays made, newest first
    hostExits,      \* TRUE: shutdown.Exit ends the process; FALSE: it returns (test host)
    fs,             \* the thread's frame stack, head (fs.Front()) first
    depth,          \* number of runFrame invocations nested inside invoke opcodes
    ctl,            \* "start", "run", "ret" (runFrame returned nil), "err", "panic",
                    \* "exited", "done"
    initialized,    \* history: the classes for which instantiateClass has succeeded
    nDirect,        \* history: number of direct calls of instantiateClass so far
    last            \* history: the last operation, what it was given and what it returned

vars == <<MethArea, bytesRequested, Statics, StaticsArray, heap, clinitRuns,
          fatal, thrown, hostExits, ArrayAddressList, fs, depth, ctl, initialized, nDirect, last>>

----------------------------------------------------------------------------
(* Bounds of the model *)

MaxDirect == 1      \* direct (host) calls of instantiateClass in one behaviour
MaxProgLen == 2     \* instructions in a registry program
IntBits == 20       \* width of a JVM int
LongBits == 28      \* width of a Go int64 (and of a JVM long)

----------------------------------------------------------------------------
(* Go helpers *)

At(s, i) == s[i + 1]

InRange(s, i) == i >= 0 /\ i < Len(s)

HasPrefix(s, tok) == Len(s) > 0 /\ s[1] = tok

Str(tok) == <<tok>>

(* interface{} values *)
I64(n) == [t |-> "int64", v |-> n]
F64(x) == [t |-> "float64", v |-> x]
Ptr(i) == [t |-> "obj", v |-> i]
NilPtr == [t |-> "obj", v |-> 0]       \* a typed nil *object.Object
NilIface == [t |-> "nil", v |-> 0]     \* the nil interface{}

FUnit == 16

APP_EXCEPTION == "APP_EXCEPTION"
JavaLangObject == Str("java/lang/Object")
JavaLangString == Str("java/lang/String")

----------------------------------------------------------------------------
(* The classes the class-bytes source can deliver, in parsed form.          *)
(* All of them share one constant pool, Pool.                               *)

Desc_String == <<"L", "java/lang/String", ";">>

Utf8Refs0 ==
    << Str("ConstantValue"),   \*  0
       Str("x"),               \*  1
       Str("I"),               \*  2
       Str("s"),               \*  3
       Desc_String,            \*  4
       Str("hello"),           \*  5
       Str("<clinit>"),        \*  6
       <<"(", ")", "V">>,      \*  7
       Str("n"),               \*  8
       Str("J"),               \*  9
       Str("d"),               \* 10
       Str("D"),               \* 11
       Str("g"),               \* 12
       Str("F"),               \* 13
       Str("k"),               \* 14
       Str("Base"),            \* 15
       Str("Derived"),         \* 16
       Str("Orphan"),          \* 17
       Str("Missing"),         \* 18
       Str("Plain"),           \* 19
       Str("r"),               \* 20
       Str("Main"),            \* 21
       <<"[", "[", "I">>,      \* 22
       <<"[", "[", "D">>,      \* 23
       <<"[", "[", "[", "L", "Base", ";">>,   \* 24
       <<"[", "[", "L">>,      \* 25
       Str("B"),               \* 26
       Str("C"),               \* 27
       Str("S"),               \* 28
       Str("Z"),               \* 29
       <<"[", "I">>,           \* 30
       Str("Q"),               \* 31
       Str("Kinds"),           \* 32
       Str("Bad") >>           \* 33

E(ty, slot) == [Type |-> ty, Slot |-> slot]

CpIndex0 ==
    << E("Dummy", 0),          \*  0  reserved
       E("UTF8", 5),           \*  1  "hello"
       E("IntConst", 0),       \*  2  7
       E("IntConst", 1),       \*  3  9
       E("LongConst", 0),      \*  4  2^25
       E("Dummy", 0),          \*  5  second slot of the long
       E("FloatConst", 0),     \*  6  1.5
       E("DoubleConst", 0),    \*  7  2.5
       E("Dummy", 0),          \*  8  second slot of the double
       E("StringConst", 5),    \*  9  "hello" (a string entry holds the utf8 slot of its text)
       E("UTF8", 15),          \* 10  "Base"
       E("ClassRef", 0),       \* 11  Base
       E("UTF8", 16),          \* 12  "Derived"
       E("ClassRef", 1),       \* 13  Derived
       E("UTF8", 17),          \* 14  "Orphan"
       E("ClassRef", 2),       \* 15  Orphan
       E("UTF8", 18),          \* 16  "Missing"
       E("ClassRef", 3),       \* 17  Missing
       E("UTF8", 1),           \* 18  "x"
       E("UTF8", 2),           \* 19  "I"
       E("NameAndType", 0),    \* 20  x:I
       E("FieldRef", 0),       \* 21  Base.x
       E("FieldRef", 1),       \* 22  Derived.x
       E("FieldRef", 2),       \* 23  Orphan.x
       E("UTF8", 19),          \* 24  "Plain"
       E("ClassRef", 4),       \* 25  Plain
       E("UTF8", 22),          \* 26  "[[I"
       E("ClassRef", 5),       \* 27  int[][]
       E("UTF8", 23),          \* 28  "[[D"
       E("ClassRef", 6),       \* 29  double[][]
       E("UTF8", 24),          \* 30  "[[[LBase;"
       E("ClassRef", 7),       \* 31  Base[][][]
       E("UTF8", 25),          \* 32  "[[L"
       E("ClassRef", 8),       \* 33  the array type written as [[L
       E("UTF8", 32),          \* 34  "Kinds"
       E("ClassRef", 9),       \* 35  Kinds
       E("UTF8", 10),          \* 36  "d"
       E("UTF8", 9),           \* 37  "J"
       E("NameAndType", 1),    \* 38  d:J
       E("FieldRef", 3) >>     \* 39  Kinds.d

Pool ==
    [ CpIndex      |-> CpIndex0,
      Utf8Refs     |-> Utf8Refs0,
      IntConsts    |-> <<7, 9>>,
      LongConsts   |-> <<33554432>>,
      Floats       |-> <<24>>,
      Doubles      |-> <<40>>,
      ClassRefs    |-> <<10, 12, 14, 16, 24, 26, 28, 30, 32, 34>>,
      NameAndTypes |-> << [NameIndex |-> 18, DescIndex |-> 19],
                          [NameIndex |-> 36, DescIndex |-> 37] >>,
      FieldRefs    |-> << [ClassIndex |-> 11, NameAndType |-> 20],
                          [ClassIndex |-> 13, NameAndType |-> 20],
                          [ClassIndex |-> 15, NameAndType |-> 20],
                          [ClassIndex |-> 35, NameAndType |-> 38] >>,
      MethodRefs   |-> << >> ]

ConstantValue(cpIdx) == << [AttrName |-> 0, AttrContent |-> <<cpIdx \div 256, cpIdx % 256>>] >>

Fld(name, desc, static, attrs) ==
    [Name |-> name, Desc |-> desc, IsStatic |-> static, Attributes |-> attrs]

\* a method: its name and descriptor (utf8 slots) and its Code attribute
Method(name, desc, maxStack, maxLocals, code) ==
    [Name |-> name, Desc |-> desc, MaxStack |-> maxStack, MaxLocals |-> maxLocals,
     Code |-> code]

Clinit == Method(6, 7, 0, 0, <<177>>)     \* static {} : return

RegistryClasses ==
    ( Str("Base") :>
        [ Name |-> Str("Base"), Superclass |-> JavaLangObject, CP |-> Pool,
          Fields  |-> << Fld(1, 2, TRUE, ConstantValue(2)),     \* static int x = 7
                         Fld(3, 4, TRUE, ConstantValue(9)),     \* static String s = "hello"
                         Fld(12, 13, TRUE, ConstantValue(6)),   \* static float g = 1.5
                         Fld(14, 2, FALSE, ConstantValue(3)) >>,\* int k, ConstantValue 9
          Methods |-> << Clinit >> ] )
 @@ ( Str("Derived") :>
        [ Name |-> Str("Derived"), Superclass |-> Str("Base"), CP |-> Pool,
          Fields  |-> << Fld(1, 2, TRUE, ConstantValue(3)),     \* static int x = 9
                         Fld(8, 9, TRUE, ConstantValue(4)),     \* static long n = 2^25
                         Fld(10, 11, TRUE, ConstantValue(7)),   \* static double d = 2.5
                         Fld(20, 4, FALSE, <<>>) >>,            \* String r
          Methods |-> << Clinit >> ] )
 @@ ( Str("Orphan") :>
        [ Name |-> Str("Orphan"), Superclass |-> Str("Missing"), CP |-> Pool,
          Fields  |-> << Fld(1, 2, TRUE, <<>>) >>,              \* static int x
          Methods |-> << Clinit >> ] )
 @@ ( Str("Plain") :>
        [ Name |-> Str("Plain"), Superclass |-> JavaLangObject, CP |-> Pool,
          Fields  |-> <<>>,
          Methods |-> <<>> ] )
 @@ ( Str("Kinds") :>
        [ Name |-> Str("Kinds"), Superclass |-> JavaLangObject, CP |-> Pool,
          Fields  |-> << Fld(1, 26, FALSE, <<>>),               \* byte x
                         Fld(3, 27, FALSE, <<>>),               \* char s
                         Fld(8, 2, FALSE, <<>>),                \* int n
                         Fld(10, 9, FALSE, <<>>),               \* long d
                         Fld(12, 28, FALSE, <<>>),              \* short g
                         Fld(14, 29, FALSE, <<>>),              \* boolean k
                         Fld(20, 13, FALSE, <<>>),              \* float r
                         Fld(5, 11, FALSE, <<>>),               \* double hello
                         Fld(21, 4, FALSE, <<>>),               \* String Main
                         Fld(2, 30, FALSE, <<>>),               \* int[] I
                         Fld(0, 9, TRUE, <<>>) >>,              \* static long ConstantValue
          Methods |-> <<>> ] )
 @@ ( Str("Bad") :>
        [ Name |-> Str("Bad"), Superclass |-> JavaLangObject, CP |-> Pool,
          Fields  |-> << Fld(1, 2, FALSE, <<>>),                \* int x
                         Fld(3, 31, FALSE, <<>>) >>,            \* a field s of the type Q
          Methods |-> <<>> ] )

\* The class Calc: nine overloads of m, reached through the pool CallPool.
Desc_Object == <<"L", "java/lang/Object", ";">>

CallDescs ==
    << <<"(", ")", "I">>,                                      \* 0  m()I
       <<"(", "I", "J", ")", "J">>,                            \* 1  m(IJ)J
       <<"(", "D", "F", ")", "D">>,                            \* 2  m(DF)D
       <<"(", "[", "I">> \o Desc_Object \o <<")">> \o Desc_Object, \* 3  m([ILjava/lang/Object;)Ljava/lang/Object;
       <<"(", "[", "[", "I", "Z", ")", "V">>,                  \* 4  m([[IZ)V
       <<"(", "F", ")", "F">>,                                 \* 5  m(F)F
       <<"(", ")", "V">>,                                      \* 6  m()V
       <<"(", "J", ")", "V">>,                                 \* 7  m(J)V
       <<"(", "I", ")", "V">> >>                               \* 8  m(I)V

NumCalc == Len(CallDescs)

\* cp index of the MethodRef of overload k (the ClassRef of Calc is entry 2)
MethodRefOf(k) == 4 + 2 * NumCalc + k

CallPool ==
    [ CpIndex      |-> << E("Dummy", 0),                       \* 0  reserved
                          E("UTF8", 0),                        \* 1  "Calc"
                          E("ClassRef", 0),                    \* 2  Calc
                          E("UTF8", 1) >>                      \* 3  "m"
                       \o [k \in 1..NumCalc |-> E("UTF8", k + 1)]         \* the descriptors
                       \o [k \in 1..NumCalc |-> E("NameAndType", k - 1)]  \* m:descriptor
                       \o [k \in 1..NumCalc |-> E("MethodRef", k - 1)],   \* Calc.m:descriptor
      Utf8Refs     |-> <<Str("Calc"), Str("m")>> \o CallDescs,
      IntConsts    |-> << >>,
      LongConsts   |-> << >>,
      Floats       |-> << >>,
      Doubles      |-> << >>,
      ClassRefs    |-> << 1 >>,
      NameAndTypes |-> [k \in 1..NumCalc |-> [NameIndex |-> 3, DescIndex |-> 3 + k]],
      FieldRefs    |-> << >>,
      MethodRefs   |-> [k \in 1..NumCalc |->
                          [ClassIndex |-> 2, NameAndType |-> 3 + NumCalc + k]] ]

CalcClass ==
    [ Name |-> Str("Calc"), Superclass |-> JavaLangObject, CP |-> CallPool,
      Fields  |-> <<>>,
      Methods |-> << Method(1, 2, 2, 1, <<4, 5, 96, 172>>),    \* iconst_1 iconst_2 iadd ireturn
                     Method(1, 3, 2, 4, <<10, 173>>),          \* lconst_1 lreturn
                     Method(1, 4, 2, 4, <<15, 175>>),          \* dconst_1 dreturn
                     Method(1, 5, 1, 3, <<1, 176>>),           \* aconst_null areturn
                     Method(1, 6, 0, 3, <<177>>),              \* return
                     Method(1, 7, 1, 2, <<13, 174>>),          \* fconst_2 freturn
                     Method(1, 8, 1, 1, <<184, 0, MethodRefOf(0), 177>>),
                                                               \* invokestatic m()I; return
                     Method(1, 9, 1, 2, <<180, 0, 2, 177>>),   \* getfield of a ClassRef; return
                     Method(1, 10, 2, 1, <<10, 184, 0, MethodRefOf(7), 177>>)
                                                               \* lconst_1; invokestatic m(J)V; return
                  >> ]

\* java/lang/Object is the one class whose class file names no superclass
\* (super_class is 0), so that the name of its superclass is the empty string
ObjectClass ==
    [ Name |-> JavaLangObject, Superclass |-> <<>>, CP |-> Pool,
      Fields  |-> <<>>,
      Methods |-> <<>> ]

Source == RegistryClasses @@ (Str("Calc") :> CalcClass) @@ (JavaLangObject :> ObjectClass)

Names == DOMAIN RegistryClasses \cup {Str("Missing")}

\* the names of array types: int[], Base[] and int[][]
ArrayNames == { <<"[", "I">>, <<"[", "L", "Base", ";">>, <<"[", "[", "I">> }

----------------------------------------------------------------------------
(* The class registry: instantiate.go                                       *)
(* The registry operators thread the record                                 *)
(*   st = [MethArea, bytesRequested, Statics, heap, clinitRuns, fatal].     *)

CurrentSt ==
    [ MethArea |-> MethArea, bytesRequested |-> bytesRequested, Statics |-> Statics,
      heap |-> heap, clinitRuns |-> clinitRuns, fatal |-> fatal ]

\* classloader.MethAreaFetch: the loaded class, or nil (FALSE here)
MethAreaFetch(ma, name) == name \in DOMAIN ma /\ ma[name] = "Loaded"

\* classloader.LoadClassFromNameOnly: the part of load_by_name that follows the
\* "already present" test: request the bytes, parse, insert as Linking, make sure
\* the superclass is loaded, mark Loaded; on failure mark Erroneous.
RECURSIVE LoadClassFromNameOnly(_, _)
LoadClassFromNameOnly(name, st) ==
    LET mark(s, status) ==
            [s EXCEPT !.MethArea =
                [n \in DOMAIN @ \cup {name} |-> IF n = name THEN status ELSE @[n]]]
        loaded(r) ==
            IF r.err
            THEN [err |-> TRUE, st |-> mark(r.st, "Erroneous")]
            ELSE [err |-> FALSE, st |-> mark(r.st, "Loaded")]
        link(linking, sup) ==
            IF sup = JavaLangObject
               \/ name = JavaLangObject
               \/ (sup \in DOMAIN linking.MethArea
                   /\ linking.MethArea[sup] \in {"Linking", "Loaded"})
            THEN [err |-> FALSE, st |-> mark(linking, "Loaded")]
            ELSE loaded(LoadClassFromNameOnly(sup, linking))
        parse(asked) ==
            IF name \notin DOMAIN Source
            THEN [err |-> TRUE, st |-> asked]
            ELSE link(mark(asked, "Linking"), Source[name].Superclass)
    IN parse([st EXCEPT !.bytesRequested =
                 IF name \in DOMAIN @ THEN [@ EXCEPT ![name] = @ + 1]
                                      ELSE @ @@ (name :> 1)])

\* classloader.WaitForClassStatus: a no-op
WaitForClassStatus(name) == [err |-> FALSE]

\* shutdown.Exit(code): the host's on_fatal
Exit(st, code) == [st EXCEPT !.fatal = Append(@, code)]

\* loadThisClass without the test for a class already in the method area
loadThisClass_Reload(className, st) ==
    LET loaded(r) ==
            IF r.err
            THEN [err |-> TRUE, st |-> Exit(r.st, APP_EXCEPTION)]
            ELSE [err |-> WaitForClassStatus(className).err, st |-> r.st]
    IN loaded(LoadClassFromNameOnly(className, st))

\* loadThisClass reporting a failed load to its caller only
loadThisClass_NoExit(className, st) ==
    LET loaded(r) ==
            IF r.err
            THEN [err |-> TRUE, st |-> r.st]
            ELSE [err |-> WaitForClassStatus(className).err, st |-> r.st]
    IN IF MethAreaFetch(st.MethArea, className)
       THEN [err |-> FALSE, st |-> st]
       ELSE loaded(LoadClassFromNameOnly(className, st))

loadThisClass(className, st) ==
    LET loaded(r) ==
            IF r.err
            THEN [err |-> TRUE, st |-> Exit(r.st, APP_EXCEPTION)]
            ELSE [err |-> WaitForClassStatus(className).err, st |-> r.st]
    IN IF MethAreaFetch(st.MethArea, className)
       THEN [err |-> FALSE, st |-> st]
       ELSE loaded(LoadClassFromNameOnly(className, st))

\* object.NewStringFromGoString: a newly allocated java/lang/String wrapping str
NewObject(klass, fields, table, str) ==
    [Klass |-> klass, Fields |-> fields, FieldTable |-> table, Str |-> str]

NewStringFromGoString(hp, str) ==
    [heap |-> Append(hp, NewObject(JavaLangString, <<>>, <<>>, str)),
     ref  |-> Ptr(Len(hp) + 1)]

\* classloader.AddStatic: re-adding a key is a no-op
AddStatic(tbl, name, s) ==
    IF name \in DOMAIN tbl THEN tbl ELSE tbl @@ (name :> s)

\* every field starting as the int 0, whatever its type
DefaultValue_Zero(ftype) ==
    IF ftype[1] \in {"L", "[", "B", "C", "I", "J", "S", "Z", "D", "F"}
    THEN [err |-> FALSE, v |-> I64(0)]
    ELSE [err |-> TRUE, v |-> NilIface]

\* createField, lines 240-253: the default value by the first character of the type
DefaultValue(ftype) ==
    CASE ftype[1] \in {"L", "["} -> [err |-> FALSE, v |-> NilIface]
      [] ftype[1] \in {"B", "C", "I", "J", "S", "Z"} -> [err |-> FALSE, v |-> I64(0)]
      [] ftype[1] \in {"D", "F"} -> [err |-> FALSE, v |-> F64(0)]
      [] OTHER -> [err |-> TRUE, v |-> NilIface]

\* createField, lines 270-291: the value of one ConstantValue attribute
ConstantValueOf(cp, content, hp) ==
    LET valueIndex == At(content, 0) * 256 + At(content, 1)
        valueType == At(cp.CpIndex, valueIndex).Type
        valueSlot == At(cp.CpIndex, valueIndex).Slot
    IN CASE valueType = "IntConst" ->
              [err |-> FALSE, v |-> I64(At(cp.IntConsts, valueSlot)), heap |-> hp]
         [] valueType = "LongConst" ->
              [err |-> FALSE, v |-> I64(At(cp.LongConsts, valueSlot)), heap |-> hp]
         [] valueType = "FloatConst" ->
              [err |-> FALSE, v |-> F64(At(cp.Floats, valueSlot)), heap |-> hp]
         [] valueType = "DoubleConst" ->
              [err |-> FALSE, v |-> F64(At(cp.Doubles, valueSlot)), heap |-> hp]
         [] valueType = "StringConst" ->
              LET str == At(cp.Utf8Refs, valueSlot)
                  n == NewStringFromGoString(hp, str)
              IN [err |-> FALSE, v |-> n.ref, heap |-> n.heap]
         [] OTHER -> [err |-> TRUE, v |-> NilIface, heap |-> hp]

\* createField, lines 266-294: the loop over the field's attributes, from j on
RECURSIVE Attrs(_, _, _, _, _)
Attrs(f, cp, j, fvalue, hp) ==
    LET constant(c) == IF c.err THEN c ELSE Attrs(f, cp, j + 1, c.v, c.heap)
        attribute(a) ==
            IF At(cp.Utf8Refs, a.AttrName) = Str("ConstantValue") /\ f.IsStatic
            THEN constant(ConstantValueOf(cp, a.AttrContent, hp))
            ELSE Attrs(f, cp, j + 1, fvalue, hp)
    IN IF j >= Len(f.Attributes)
       THEN [err |-> FALSE, v |-> fvalue, heap |-> hp]
       ELSE attribute(At(f.Attributes, j))

\* createField, lines 305-308: insert the static unless the key is present
\* createField storing the static whether or not the table holds its key
InsertStatic_Overwrite(tbl, fullFieldName, s) ==
    [n \in DOMAIN tbl \cup {fullFieldName} |-> IF n = fullFieldName THEN s ELSE tbl[n]]

InsertStatic(tbl, fullFieldName, s) ==
    IF fullFieldName \in DOMAIN tbl THEN tbl ELSE AddStatic(tbl, fullFieldName, s)

\* createField, line 303: the key of a static in the statics table
FullFieldName(classname, fieldName) == classname \o <<".">> \o fieldName

createField(f, k, classname, st) ==
    LET desc == At(k.CP.Utf8Refs, f.Desc)
        name == At(k.CP.Utf8Refs, f.Name)
        presentType == desc
        ftype == IF f.IsStatic THEN <<"X">> \o presentType ELSE presentType
        \* lines 296-311: the field, and the static it adds
        made(a, field, st1) ==
            IF a.err
            THEN [err |-> TRUE, field |-> field, st |-> st1]
            ELSE IF f.IsStatic
                 THEN [err |-> FALSE, field |-> field,
                       st |-> [st1 EXCEPT !.Statics =
                                  InsertStatic(@, FullFieldName(classname, name),
                                               [Type |-> presentType, Value |-> a.v,
                                                Lazy |-> FALSE])]]
                 ELSE [err |-> FALSE, field |-> field, st |-> st1]
        attributes(a) ==
            made(a, [Ftype |-> ftype, Fvalue |-> a.v], [st EXCEPT !.heap = a.heap])
        typed(dflt) ==
            IF dflt.err
            THEN [err |-> TRUE, field |-> [Ftype |-> desc, Fvalue |-> NilIface], st |-> st]
            ELSE attributes(Attrs(f, k.CP, 0, dflt.v, st.heap))
    IN typed(DefaultValue(desc))

\* instantiateClass, lines 57-75: the walk up the superclasses
RECURSIVE SuperWalk(_, _, _)
SuperWalk(superclass, superclasses, st) ==
    LET loaded(r) ==
            IF r.err
            THEN [err |-> TRUE, superclasses |-> superclasses, st |-> r.st]
            ELSE SuperWalk(Source[superclass].Superclass,
                           Append(superclasses, superclass), r.st)
    IN IF superclass = JavaLangObject
       THEN [err |-> FALSE, superclasses |-> superclasses, st |-> st]
       ELSE loaded(loadThisClass(superclass, st))

\* instantiateClass, lines 93-108 and 129-146: the fields of one class c, from i on;
\* byName tells whether they go to obj.FieldTable or to obj.Fields
RECURSIVE FieldsOf(_, _, _, _, _, _, _)
FieldsOf(c, classname, i, byName, fields, table, st) ==
    LET created(name, r) ==
            IF r.err
            THEN [err |-> TRUE, fields |-> fields, table |-> table, st |-> r.st]
            ELSE IF byName
                 THEN FieldsOf(c, classname, i + 1, byName, fields,
                               [n \in DOMAIN table \cup {name} |->
                                   IF n = name THEN r.field ELSE table[n]], r.st)
                 ELSE FieldsOf(c, classname, i + 1, byName, Append(fields, r.field),
                               table, r.st)
        field(f) == created(At(c.CP.Utf8Refs, f.Name), createField(f, c, classname, st))
    IN IF i >= Len(c.Fields)
       THEN [err |-> FALSE, fields |-> fields, table |-> table, st |-> st]
       ELSE field(At(c.Fields, i))

\* instantiateClass, lines 119-147: the classes of the chain, topmost first (from j down)
RECURSIVE ChainFields(_, _, _, _, _)
ChainFields(chain, classname, j, table, st) ==
    LET done(r) ==
            IF r.err THEN r ELSE ChainFields(chain, classname, j - 1, r.table, r.st)
    IN IF j < 0
       THEN [err |-> FALSE, fields |-> <<>>, table |-> table, st |-> st]
       ELSE IF ~ MethAreaFetch(st.MethArea, At(chain, j))
            THEN [err |-> TRUE, fields |-> <<>>, table |-> table, st |-> st]
            ELSE done(FieldsOf(Source[At(chain, j)], classname, 0, TRUE, <<>>, table, st))

\* classloader.FetchMethodAndCP: the method-table entry of the method with that
\* name and descriptor in the loaded class, or else in its superclasses
RECURSIVE FetchMethodAndCP(_, _, _, _)
FetchMethodAndCP(ma, className, methName, methType) ==
    IF ~ MethAreaFetch(ma, className) \/ className \notin DOMAIN Source
    THEN [err |-> TRUE]
    ELSE LET k == Source[className]
             found == {i \in 1..Len(k.Methods) :
                         /\ At(k.CP.Utf8Refs, k.Methods[i].Name) = methName
                         /\ At(k.CP.Utf8Refs, k.Methods[i].Desc) = methType}
         IN IF found # {}
            THEN LET m == k.Methods[CHOOSE i \in found : \A j \in found : i <= j]
                 IN [err |-> FALSE, MType |-> "J",
                     Meth |-> [MaxStack |-> m.MaxStack, MaxLocals |-> m.MaxLocals,
                               Code |-> m.Code, Cp |-> k.CP]]
            ELSE FetchMethodAndCP(ma, k.Superclass, methName, methType)

runInitializationBlock(k, idx, st) ==
    LET className == k.Name
        me == FetchMethodAndCP(st.MethArea, className, Str("<clinit>"), <<"(", ")", "V">>)
    IN IF me.err
       THEN [err |-> TRUE, st |-> st]
       ELSE [err |-> FALSE,
             st |-> [st EXCEPT !.clinitRuns =
                        IF className \in DOMAIN @ THEN [@ EXCEPT ![className] = @ + 1]
                                                  ELSE @ @@ (className :> 1)]]

\* instantiateClass, lines 149-162: the initialization blocks of k, from method i on
RECURSIVE RunInitializer(_, _, _)
RunInitializer(k, i, st) ==
    LET ran(r) == IF r.err THEN r ELSE RunInitializer(k, i + 1, r.st)
    IN IF i >= Len(k.Methods)
       THEN [err |-> FALSE, st |-> st]
       ELSE IF HasPrefix(At(k.CP.Utf8Refs, At(k.Methods, i).Name), "<clinit>")
            THEN ran(runInitializationBlock(k, i, st))
            ELSE RunInitializer(k, i + 1, st)

instantiateClass(classname, st) ==
    LET failed(s) == [err |-> TRUE, obj |-> NilPtr, st |-> s]
        k == Source[classname]
        \* lines 149-164: the initialization blocks have run; the object is made
        made(fl, ini) ==
            IF ini.err THEN failed(ini.st)
            ELSE [err |-> FALSE,
                  obj |-> Ptr(Len(ini.st.heap) + 1),
                  st  |-> [ini.st EXCEPT !.heap =
                             Append(@, NewObject(classname, fl.fields, fl.table, <<>>))]]
        \* lines 92-147: the fields, of the class alone or of the whole chain
        fields(w) ==
            IF Len(w.superclasses) = 0
            THEN FieldsOf(k, classname, 0, FALSE, <<>>, <<>>, w.st)
            ELSE ChainFields(<<classname>> \o w.superclasses, classname,
                             Len(w.superclasses), <<>>, w.st)
        afterFields(fl) ==
            IF fl.err THEN failed(fl.st) ELSE made(fl, RunInitializer(k, 0, fl.st))
        afterWalk(w) ==
            IF w.err THEN failed(w.st) ELSE afterFields(fields(w))
        afterLoad(l) ==
            IF l.err THEN failed(l.st)
            ELSE IF ~ MethAreaFetch(l.st.MethArea, classname) THEN failed(l.st)
            ELSE afterWalk(SuperWalk(k.Superclass, <<>>, l.st))
    IN afterLoad(IF ~ HasPrefix(classname, "[")
                 THEN loadThisClass(classname, st)
                 ELSE [err |-> FALSE, st |-> st])

----------------------------------------------------------------------------
(* Frames and the operand stack: run.go                                     *)

NEW_OP == 187
GETSTATIC == 178

\* frames.CreateFrame(opStackSize): an empty operand stack of that capacity, TOS = -1
CreateFrame(opStackSize) ==
    [ ClName |-> <<>>, MethName |-> <<>>, CP |-> Pool, Meth |-> <<>>, PC |-> 0,
      TOS |-> -1, OpStack |-> [i \in 1..opStackSize |-> I64(0)], Locals |-> <<>> ]

CanPush(f, n) == f.TOS + n < Len(f.OpStack)
CanPop(f, n) == f.TOS - n >= -1

push(f, x) == [f EXCEPT !.TOS = @ + 1, !.OpStack[f.TOS + 2] = x]
pop(f) == [f EXCEPT !.TOS = @ - 1]
\* the slot at the bottom of the stack in place of the one on top
peek_Bottom(f) == At(f.OpStack, 0)

peek(f) == At(f.OpStack, f.TOS)

\* the frame at the head of the frame stack and its opcode
Top == fs[1]
Running(op) ==
    /\ ctl = "run"
    /\ Len(fs) > 0
    /\ Top.PC < Len(Top.Meth)
    /\ At(Top.Meth, Top.PC) = op

\* the two operand bytes that follow the opcode, as a CP index
HasOperands(f, n) == f.PC + n < Len(f.Meth)
CPslotOf(f) == At(f.Meth, f.PC + 1) * 256 + At(f.Meth, f.PC + 2)

\* classloader.FetchUTF8stringFromCPEntryNumber: the validated utf8 lookup,
\* "" when the entry is not a utf8 entry
FetchUTF8stringFromCPEntryNumber(cp, index) ==
    IF /\ index >= 1 /\ index < Len(cp.CpIndex)
       /\ At(cp.CpIndex, index).Type = "UTF8"
       /\ InRange(cp.Utf8Refs, At(cp.CpIndex, index).Slot)
    THEN At(cp.Utf8Refs, At(cp.CpIndex, index).Slot)
    ELSE <<>>

SetRegistry(st) ==
    /\ MethArea' = st.MethArea
    /\ bytesRequested' = st.bytesRequested
    /\ Statics' = st.Statics
    /\ heap' = st.heap
    /\ clinitRuns' = st.clinitRuns
    /\ fatal' = st.fatal

Panic ==
    /\ ctl' = "panic"
    /\ UNCHANGED <<MethArea, bytesRequested, Statics, StaticsArray, heap, clinitRuns,
                   fatal, thrown, hostExits, ArrayAddressList, fs, depth, initialized, nDirect, last>>

\* the f.PC += 1 at the bottom of the dispatch loop (line 1828)
Advance(f) == [f EXCEPT !.PC = @ + 1]

\* a direct call of instantiateClass by the host, before the thread runs
DirectInstantiate(classname) ==
    /\ ctl = "start"
    /\ nDirect < MaxDirect
    /\ \E r \in {instantiateClass(classname, CurrentSt)} :
       LET exits == hostExits /\ Len(r.st.fatal) > Len(fatal)
       IN /\ SetRegistry(r.st)
          /\ initialized' = IF r.err THEN initialized ELSE initialized \cup {classname}
          /\ ctl' = IF exits THEN "exited" ELSE ctl
          /\ last' = [op |-> "instantiate", name |-> classname, err |-> r.err,
                      obj |-> r.obj, returned |-> ~ exits]
    /\ nDirect' = nDirect + 1
    /\ UNCHANGED <<StaticsArray, thrown, hostExits, ArrayAddressList, fs, depth>>

\* runThread: start running the frame at the head of the frame stack
runThread ==
    /\ ctl = "start"
    /\ ctl' = IF Len(fs) > 0 THEN "run" ELSE "done"
    /\ UNCHANGED <<MethArea, bytesRequested, Statics, StaticsArray, heap, clinitRuns,
                   fatal, thrown, hostExits, ArrayAddressList, fs, depth, initialized, nDirect, last>>

\* the class name a ClassRef entry designates (NEW, lines 1606-1611)
ClassNameOfNew(cp, CPentry) ==
    IF CPentry.Type = "ClassRef"
    THEN FetchUTF8stringFromCPEntryNumber(cp, At(cp.ClassRefs, CPentry.Slot))
    ELSE <<>>

Op_NEW ==
    /\ Running(NEW_OP)
    /\ LET f == Top IN
       IF ~ HasOperands(f, 2) \/ ~ InRange(f.CP.CpIndex, CPslotOf(f))
       THEN Panic
       ELSE
         \E className \in {ClassNameOfNew(f.CP, At(f.CP.CpIndex, CPslotOf(f)))} :
         \E r \in {instantiateClass(className, CurrentSt)} :
         LET f1 == [f EXCEPT !.PC = @ + 2]
             exits == hostExits /\ r.err
             exitedInside == hostExits /\ Len(r.st.fatal) > Len(fatal)
         IN /\ SetRegistry(IF r.err /\ ~ exitedInside
                            THEN Exit(r.st, APP_EXCEPTION) ELSE r.st)
            /\ initialized' = IF r.err THEN initialized ELSE initialized \cup {className}
            /\ last' = [op |-> "instantiate", name |-> className, err |-> r.err,
                        obj |-> r.obj, returned |-> ~ exits]
            /\ IF exits
               THEN ctl' = "exited" /\ fs' = [fs EXCEPT ![1] = f1]
               ELSE IF ~ CanPush(f1, 1)
                    THEN ctl' = "panic" /\ fs' = [fs EXCEPT ![1] = f1]
                    ELSE ctl' = ctl /\ fs' = [fs EXCEPT ![1] = Advance(push(f1, r.obj))]
            /\ UNCHANGED <<StaticsArray, thrown, hostExits, ArrayAddressList, depth, nDirect>>

\* GETSTATIC, lines 1310-1326: the key "<class>.<field>" a FieldRef designates
StaticKeyOf(cp, CPentry) ==
    LET field == At(cp.FieldRefs, CPentry.Slot)
        classRef == field.ClassIndex
        classNameIndex == At(cp.ClassRefs, At(cp.CpIndex, classRef).Slot)
        classNameEntry == At(cp.CpIndex, classNameIndex)
        className == At(cp.Utf8Refs, classNameEntry.Slot)
        nAndT == At(cp.NameAndTypes, At(cp.CpIndex, field.NameAndType).Slot)
    IN [ className |-> className,
         fieldName |-> className \o <<".">>
                         \o FetchUTF8stringFromCPEntryNumber(cp, nAndT.NameIndex),
         fieldType |-> FetchUTF8stringFromCPEntryNumber(cp, nAndT.DescIndex) ]

\* a GETSTATIC that pushes the index after the one the entry holds
PrevLoaded_Next(entry) == I64(entry.Value.v + 1)

\* the value GETSTATIC pushes for an entry found in the statics table
PrevLoaded(entry) ==
    IF entry.Lazy THEN entry.Value ELSE [t |-> "static", v |-> entry.Value.v]

Op_GETSTATIC ==
    /\ Running(GETSTATIC)
    /\ LET f == Top IN
       IF ~ HasOperands(f, 2) \/ ~ InRange(f.CP.CpIndex, CPslotOf(f))
       THEN Panic
       ELSE
         LET f1 == [f EXCEPT !.PC = @ + 2]
             CPentry == At(f.CP.CpIndex, CPslotOf(f))
         IN IF CPentry.Type # "FieldRef"
            THEN /\ ctl' = "err"
                 /\ fs' = [fs EXCEPT ![1] = f1]
                 /\ last' = [op |-> "getstatic", name |-> <<>>, err |-> TRUE,
                             obj |-> NilPtr, returned |-> TRUE]
                 /\ UNCHANGED <<MethArea, bytesRequested, Statics, StaticsArray, heap,
                                clinitRuns, fatal>>
            ELSE
              LET key == StaticKeyOf(f.CP, CPentry)
                  ok == key.fieldName \in DOMAIN Statics
                  newStatic == [Class |-> "L", Type |-> key.fieldType]
                  index == I64(Len(StaticsArray))
                  pushed == IF ok THEN PrevLoaded(Statics[key.fieldName]) ELSE index
              IN /\ IF ok
                    THEN UNCHANGED <<Statics, StaticsArray>>
                    ELSE /\ StaticsArray' = Append(StaticsArray, newStatic)
                         /\ Statics' = Statics @@
                               (key.fieldName :>
                                  [Type |-> key.fieldType, Value |-> index, Lazy |-> TRUE])
                 /\ last' = [op |-> "getstatic", name |-> key.className, err |-> FALSE,
                             obj |-> NilPtr, returned |-> TRUE]
                 /\ IF ~ CanPush(f1, 1)
                    THEN ctl' = "panic" /\ fs' = [fs EXCEPT ![1] = f1]
                    ELSE ctl' = ctl /\ fs' = [fs EXCEPT ![1] = Advance(push(f1, pushed))]
                 /\ UNCHANGED <<MethArea, bytesRequested, heap, clinitRuns, fatal>>
    /\ UNCHANGED <<thrown, hostExits, ArrayAddressList, depth, initialized, nDirect>>

\* the loop guard of runFrame (line 149): past the last byte, runFrame returns nil
FrameEnd ==
    /\ ctl = "run"
    /\ Len(fs) > 0
    /\ Top.PC >= Len(Top.Meth)
    /\ ctl' = "ret"
    /\ UNCHANGED <<MethArea, bytesRequested, Statics, StaticsArray, heap, clinitRuns,
                   fatal, thrown, hostExits, ArrayAddressList, fs, depth, initialized, nDirect, last>>

\* runThread, lines 92-102: runFrame has returned nil to runThread
ThreadLoop ==
    /\ ctl = "ret"
    /\ depth = 0
    /\ ctl' = IF Len(fs) = 1 \/ Len(fs) = 0 THEN "done" ELSE "run"
    /\ UNCHANGED <<MethArea, bytesRequested, Statics, StaticsArray, heap, clinitRuns,
                   fatal, thrown, hostExits, ArrayAddressList, fs, depth, initialized, nDirect, last>>

----------------------------------------------------------------------------
(* Integer arithmetic: run.go                                               *)

IADD == 96
ISUB == 100
IMUL == 104
IDIV == 108
LDIV == 109
IREM == 112
LREM == 113

Pow2(n) == 2 ^ n
MinInt == - Pow2(IntBits - 1)
MaxInt == Pow2(IntBits - 1) - 1
MinLong == - Pow2(LongBits - 1)
MaxLong == Pow2(LongBits - 1) - 1

Abs(n) == IF n < 0 THEN - n ELSE n

\* the two's-complement value of n in a word of the given width
Wrap(n, bits) == ((n + Pow2(bits - 1)) % Pow2(bits)) - Pow2(bits - 1)

\* Go's + and - on int64
add(num1, num2) == Wrap(num1 + num2, LongBits)
subtract(num1, num2) == Wrap(num1 - num2, LongBits)

\* Go's * on int64: the product modulo 2^LongBits, computed by halves so that no
\* intermediate value leaves the range of the model checker's integers
multiply(num1, num2) ==
    LET h  == (LongBits + 1) \div 2
        B  == Pow2(h)
        ua == num1 % Pow2(LongBits)
        ub == num2 % Pow2(LongBits)
        a0 == ua % B
        a1 == ua \div B
        b0 == ub % B
        b1 == ub \div B
        mid == (a1 * b0 + a0 * b1) % Pow2(LongBits - h)
    IN Wrap((a0 * b0 + mid * B) % Pow2(LongBits), LongBits)

\* Go's / and % on int64: the quotient truncated toward zero, wrapped, and the
\* remainder with the sign of the dividend
\* the quotient rounded toward minus infinity
GoDiv_Floor(x, y) == Wrap(x \div y, LongBits)

GoDiv(x, y) ==
    LET q == Abs(x) \div Abs(y)
    IN Wrap(IF (x < 0) = (y < 0) THEN q ELSE - q, LongBits)
GoRem(x, y) ==
    LET r == Abs(x) % Abs(y)
    IN IF x < 0 THEN - r ELSE r

IsInt64(x) == x.t = "int64"

\* operand-stack slot n places below the top
Slot(f, n) == At(f.OpStack, f.TOS - n)

RECURSIVE popN(_, _)
popN(f, n) == IF n = 0 THEN f ELSE popN(pop(f), n - 1)

\* an opcode whose result lands on the stack of the frame below as well
FrameStep_Caller(f) ==
    /\ fs' = IF Len(fs) >= 2 /\ CanPush(fs[2], 1) /\ f.TOS >= 0
             THEN [fs EXCEPT ![1] = Advance(f), ![2] = push(@, peek(f))]
             ELSE [fs EXCEPT ![1] = Advance(f)]
    /\ UNCHANGED <<MethArea, bytesRequested, Statics, StaticsArray, heap, clinitRuns,
                   fatal, thrown, hostExits, ArrayAddressList, depth, ctl, initialized, nDirect, last>>

\* an opcode that changes only the current frame
FrameStep(f) ==
    /\ fs' = [fs EXCEPT ![1] = Advance(f)]
    /\ UNCHANGED <<MethArea, bytesRequested, Statics, StaticsArray, heap, clinitRuns,
                   fatal, thrown, hostExits, ArrayAddressList, depth, ctl, initialized, nDirect, last>>

\* exceptions.Throw(exc, msg) followed by shutdown.Exit(APP_EXCEPTION), in frame f
ThrowAndExit(f, exc) ==
    /\ thrown' = Append(thrown, exc)
    /\ fatal' = Append(fatal, APP_EXCEPTION)
    /\ IF hostExits
       THEN ctl' = "exited" /\ fs' = [fs EXCEPT ![1] = f]
       ELSE ctl' = ctl /\ fs' = [fs EXCEPT ![1] = Advance(f)]
    /\ UNCHANGED <<MethArea, bytesRequested, Statics, StaticsArray, heap, clinitRuns,
                   hostExits, ArrayAddressList, depth, initialized, nDirect, last>>

Op_IADD ==
    /\ Running(IADD)
    /\ LET f == Top IN
       IF ~ CanPop(f, 2) \/ ~ IsInt64(Slot(f, 0)) \/ ~ IsInt64(Slot(f, 1))
       THEN Panic
       ELSE LET i2 == Slot(f, 0).v
                i1 == Slot(f, 1).v
                sum == add(i1, i2)
            IN FrameStep(push(popN(f, 2), I64(sum)))

Op_ISUB ==
    /\ Running(ISUB)
    /\ LET f == Top IN
       IF ~ CanPop(f, 2) \/ ~ IsInt64(Slot(f, 0)) \/ ~ IsInt64(Slot(f, 1))
       THEN Panic
       ELSE LET i2 == Slot(f, 0).v
                i1 == Slot(f, 1).v
                diff == subtract(i1, i2)
            IN FrameStep(push(popN(f, 2), I64(diff)))

Op_IMUL ==
    /\ Running(IMUL)
    /\ LET f == Top IN
       IF ~ CanPop(f, 2) \/ ~ IsInt64(Slot(f, 0)) \/ ~ IsInt64(Slot(f, 1))
       THEN Panic
       ELSE LET i2 == Slot(f, 0).v
                i1 == Slot(f, 1).v
                product == multiply(i1, i2)
            IN FrameStep(push(popN(f, 2), I64(product)))

Op_IDIV ==
    /\ Running(IDIV)
    /\ LET f == Top IN
       IF ~ CanPop(f, 1) \/ ~ IsInt64(Slot(f, 0))
       THEN Panic
       ELSE LET val1 == Slot(f, 0).v IN
            IF val1 = 0
            THEN ThrowAndExit(pop(f), "ArithmeticException")
            ELSE IF ~ CanPop(f, 2) \/ ~ IsInt64(Slot(f, 1))
                 THEN Panic
                 ELSE LET val2 == Slot(f, 1).v
                      IN FrameStep(push(popN(f, 2), I64(GoDiv(val2, val1))))

Op_LDIV ==
    /\ Running(LDIV)
    /\ LET f == Top IN
       IF ~ CanPop(f, 2) \/ ~ IsInt64(Slot(f, 0))
       THEN Panic
       ELSE LET val2 == Slot(f, 0).v IN
            IF val2 = 0
            THEN ThrowAndExit(popN(f, 2), "ArithmeticException")
            ELSE IF ~ CanPop(f, 4) \/ ~ IsInt64(Slot(f, 2))
                 THEN Panic
                 ELSE LET val1 == Slot(f, 2).v
                          res == GoDiv(val1, val2)
                      IN FrameStep(push(push(popN(f, 4), I64(res)), I64(res)))

Op_IREM ==
    /\ Running(IREM)
    /\ LET f == Top IN
       IF ~ CanPop(f, 1) \/ ~ IsInt64(Slot(f, 0))
       THEN Panic
       ELSE LET val2 == Slot(f, 0).v IN
            IF val2 = 0
            THEN ThrowAndExit(pop(f), "ArithmeticException")
            ELSE IF ~ CanPop(f, 2) \/ ~ IsInt64(Slot(f, 1))
                 THEN Panic
                 ELSE LET val1 == Slot(f, 1).v
                          res == GoRem(val1, val2)
                      IN FrameStep(push(popN(f, 2), I64(res)))

Op_LREM ==
    /\ Running(LREM)
    /\ LET f == Top IN
       IF ~ CanPop(f, 2) \/ ~ IsInt64(Slot(f, 0))
       THEN Panic
       ELSE LET val2 == Slot(f, 0).v IN
            IF val2 = 0
            THEN ThrowAndExit(popN(f, 2), "ArithmeticException")
            ELSE IF ~ CanPop(f, 4) \/ ~ IsInt64(Slot(f, 2))
                 THEN Panic
                 ELSE LET val1 == Slot(f, 2).v
                          res == GoRem(val1, val2)
                      IN FrameStep(push(push(popN(f, 4), I64(res)), I64(res)))

----------------------------------------------------------------------------
(* Constants, invocation and return: run.go                                 *)

ACONST_NULL == 1
ICONST_1 == 4
ICONST_2 == 5
LCONST_1 == 10
FCONST_2 == 13
DCONST_1 == 15
IRETURN == 172
LRETURN == 173
FRETURN == 174
DRETURN == 175
ARETURN == 176
RETURN == 177
INVOKEVIRTUAL == 182
INVOKESPECIAL == 183
INVOKESTATIC == 184

IsFloat64(x) == x.t = "float64"
IsObject(x) == x.t = "obj"

\* push the given slots on the current frame
PushConst(slots) ==
    LET f == Top IN
    IF ~ CanPush(f, Len(slots))
    THEN Panic
    ELSE FrameStep(IF Len(slots) = 2 THEN push(push(f, slots[1]), slots[2])
                                     ELSE push(f, slots[1]))

Op_ACONST_NULL ==
    /\ Running(ACONST_NULL)
    /\ PushConst(<<I64(0)>>)

Op_ICONST_1 ==
    /\ Running(ICONST_1)
    /\ PushConst(<<I64(1)>>)

Op_ICONST_2 ==
    /\ Running(ICONST_2)
    /\ PushConst(<<I64(2)>>)

Op_LCONST_1 ==
    /\ Running(LCONST_1)
    /\ PushConst(<<I64(1), I64(1)>>)

Op_FCONST_2 ==
    /\ Running(FCONST_2)
    /\ PushConst(<<F64(2 * FUnit)>>)

Op_DCONST_1 ==
    /\ Running(DCONST_1)
    /\ PushConst(<<F64(FUnit), F64(FUnit)>>)


\* util.ParseIncomingParamsFromMethTypeString: the parameters of a descriptor,
\* left to right; a reference is "L", an array keeps its brackets
RECURSIVE ParseParams(_, _, _, _)
ParseParams(d, i, cur, acc) ==
    IF i > Len(d) \/ d[i] = ")"
    THEN acc
    ELSE IF d[i] = "("
         THEN ParseParams(d, i + 1, cur, acc)
         ELSE IF d[i] = "["
              THEN ParseParams(d, i + 1, Append(cur, "["), acc)
              ELSE IF d[i] = "L"
                   THEN ParseParams(d, i + 3, <<>>, Append(acc, Append(cur, "L")))
                   ELSE ParseParams(d, i + 1, <<>>, Append(acc, Append(cur, d[i])))

ParseIncomingParamsFromMethTypeString(methodType) == ParseParams(methodType, 1, <<>>, <<>>)

\* createAndInitNewFrame, lines 1967-1982: the leading brackets of a parameter
RECURSIVE ArrayDimensions(_, _)
ArrayDimensions(param, i) ==
    IF i < Len(param) /\ At(param, i) = "[" THEN 1 + ArrayDimensions(param, i + 1) ELSE 0

\* createAndInitNewFrame, lines 1965-2022: pop the parameters from j down to 0
\* off f, collecting them in argList
RECURSIVE PopParams(_, _, _, _)
PopParams(paramsToPass, j, f, argList) ==
    IF j <= -1
    THEN [panic |-> FALSE, f |-> f, argList |-> argList]
    ELSE
      LET param == At(paramsToPass, j)
          arrayDimensions == IF At(param, 0) = "[" THEN ArrayDimensions(param, 0) ELSE 0
          primitive == At(param, arrayDimensions)
          crash == [panic |-> TRUE, f |-> f, argList |-> argList]
          one(ok) == IF ~ CanPop(f, 1) \/ ~ ok
                     THEN crash
                     ELSE PopParams(paramsToPass, j - 1, pop(f), Append(argList, peek(f)))
          two(ok) == IF ~ CanPop(f, 1) \/ ~ ok \/ ~ CanPop(f, 2)
                     THEN crash
                     ELSE PopParams(paramsToPass, j - 1, popN(f, 2),
                                    Append(Append(argList, peek(f)), peek(f)))
          top == IF CanPop(f, 1) THEN peek(f) ELSE NilIface
      IN IF arrayDimensions >= 1 THEN one(IsObject(top))
         ELSE IF primitive = "D" THEN two(IsFloat64(top))
         ELSE IF primitive = "F" THEN one(IsFloat64(top))
         ELSE IF primitive \in {"B", "C", "I", "S"} THEN one(IsInt64(top))
         ELSE IF primitive = "J" THEN two(IsInt64(top))
         ELSE IF primitive = "L" THEN one(IsObject(top))
         ELSE one(TRUE)

\* createAndInitNewFrame, lines 2032-2035: the arguments into the locals, last
\* collected first
RECURSIVE StoreArgs(_, _, _, _)
StoreArgs(locals, argList, j, destLocal) ==
    IF j < 0
    THEN [panic |-> FALSE, locals |-> locals]
    ELSE IF ~ InRange(locals, destLocal)
         THEN [panic |-> TRUE, locals |-> locals]
         ELSE StoreArgs([locals EXCEPT ![destLocal + 1] = At(argList, j)],
                        argList, j - 1, destLocal + 1)

createAndInitNewFrame(className, methodName, methodType, m, includeObjectRef, currFrame) ==
    LET fram == [CreateFrame(m.MaxStack) EXCEPT
                    !.ClName = className, !.MethName = methodName, !.CP = m.Cp,
                    !.Meth = m.Code, !.Locals = [k \in 1..m.MaxLocals |-> I64(0)]]
        paramsToPass == ParseIncomingParamsFromMethTypeString(methodType)
        p == PopParams(paramsToPass, Len(paramsToPass) - 1, currFrame, <<>>)
        crash(f) == [panic |-> TRUE, fram |-> fram, f |-> f]
    IN IF p.panic THEN crash(p.f)
       ELSE IF includeObjectRef /\ (~ CanPop(p.f, 1) \/ Len(fram.Locals) = 0)
            THEN crash(p.f)
            ELSE
              LET f == IF includeObjectRef THEN pop(p.f) ELSE p.f
                  locals == IF includeObjectRef
                            THEN [fram.Locals EXCEPT ![1] = peek(p.f)]
                            ELSE fram.Locals
                  destLocal == IF includeObjectRef THEN 1 ELSE 0
                  r == StoreArgs(locals, p.argList, Len(p.argList) - 1, destLocal)
              IN IF r.panic THEN crash(f)
                 ELSE [panic |-> FALSE, f |-> f,
                       fram |-> [fram EXCEPT !.Locals = r.locals, !.TOS = -1]]

\* runFrame returns an error from frame f
ReturnError(f) ==
    /\ ctl' = "err"
    /\ fs' = [fs EXCEPT ![1] = f]
    /\ UNCHANGED <<MethArea, bytesRequested, Statics, StaticsArray, heap, clinitRuns,
                   fatal, thrown, hostExits, ArrayAddressList, depth, initialized, nDirect, last>>

\* INVOKEVIRTUAL, lines 1403-1423: class, name and descriptor of a MethodRef
MethodOf(cp, CPentry) ==
    LET method == At(cp.MethodRefs, CPentry.Slot)
        classRef == method.ClassIndex
        classNameIndex == At(cp.ClassRefs, At(cp.CpIndex, classRef).Slot)
        classNameEntry == At(cp.CpIndex, classNameIndex)
        nAndT == At(cp.NameAndTypes, At(cp.CpIndex, method.NameAndType).Slot)
    IN [ className  |-> At(cp.Utf8Refs, classNameEntry.Slot),
         methodName |-> FetchUTF8stringFromCPEntryNumber(cp, nAndT.NameIndex),
         methodType |-> FetchUTF8stringFromCPEntryNumber(cp, nAndT.DescIndex) ]

\* getMethInfoFromCPmethref: the same three strings, empty when the entry is not
\* a MethodRef
getMethInfoFromCPmethref(cp, cpIndex) ==
    IF cpIndex < 1 \/ cpIndex >= Len(cp.CpIndex) \/ At(cp.CpIndex, cpIndex).Type # "MethodRef"
    THEN [className |-> <<>>, methodName |-> <<>>, methodType |-> <<>>]
    ELSE MethodOf(cp, At(cp.CpIndex, cpIndex))

\* the part the three invocation opcodes share: fetch the method, create its
\* frame from the caller f, push it and run it.  None of the modelled classes
\* has a native method, so every entry fetched is a bytecode ('J') entry.
InvokeMethod(info, includeObjectRef, f) ==
    LET mtEntry == FetchMethodAndCP(MethArea, info.className, info.methodName,
                                    info.methodType)
    IN IF mtEntry.err
       THEN ReturnError(f)
       ELSE \E r \in {createAndInitNewFrame(info.className, info.methodName,
                                               info.methodType, mtEntry.Meth,
                                               includeObjectRef, f)} :
               /\ IF r.panic
                  THEN /\ ctl' = "panic"
                       /\ fs' = [fs EXCEPT ![1] = r.f]
                       /\ depth' = depth
                  ELSE /\ ctl' = ctl
                       /\ fs' = <<r.fram>> \o [fs EXCEPT ![1] = r.f]
                       /\ depth' = depth + 1
               /\ last' = [op |-> "invoke", name |-> info.methodName, err |-> FALSE,
                           obj |-> NilPtr, returned |-> TRUE]
               /\ UNCHANGED <<MethArea, bytesRequested, Statics, StaticsArray, heap,
                              clinitRuns, fatal, thrown, hostExits, ArrayAddressList, initialized, nDirect>>

Op_INVOKEVIRTUAL ==
    /\ Running(INVOKEVIRTUAL)
    /\ LET f == Top IN
       IF ~ HasOperands(f, 2) \/ ~ InRange(f.CP.CpIndex, CPslotOf(f))
       THEN Panic
       ELSE LET f1 == [f EXCEPT !.PC = @ + 2]
                CPentry == At(f.CP.CpIndex, CPslotOf(f))
            IN IF CPentry.Type # "MethodRef"
               THEN ReturnError(f1)
               ELSE IF ~ InRange(f.CP.MethodRefs, CPentry.Slot)
                    THEN Panic
                    ELSE \E info \in {MethodOf(f.CP, CPentry)}, caller \in {f1} :
                            InvokeMethod(info, TRUE, caller)

Op_INVOKESPECIAL ==
    /\ Running(INVOKESPECIAL)
    /\ LET f == Top IN
       IF ~ HasOperands(f, 2)
       THEN Panic
       ELSE LET f1 == [f EXCEPT !.PC = @ + 2]
            IN \E info \in {getMethInfoFromCPmethref(f.CP, CPslotOf(f))}, caller \in {f1} :
                  InvokeMethod(info, TRUE, caller)

Op_INVOKESTATIC ==
    /\ Running(INVOKESTATIC)
    /\ LET f == Top IN
       IF ~ HasOperands(f, 2) \/ ~ InRange(f.CP.CpIndex, CPslotOf(f))
       THEN Panic
       ELSE LET f1 == [f EXCEPT !.PC = @ + 2]
                CPentry == At(f.CP.CpIndex, CPslotOf(f))
            IN IF ~ InRange(f.CP.MethodRefs, CPentry.Slot)
               THEN Panic
               ELSE \E info \in {MethodOf(f.CP, CPentry)}, caller \in {f1} :
                       InvokeMethod(info, FALSE, caller)

\* an invocation that takes the error of the frame it ran for a return: it
\* removes the frame and goes on with the caller
ErrorReturn_Resume ==
    /\ ctl = "err"
    /\ depth > 0
    /\ depth' = depth - 1
    /\ ctl' = "run"
    /\ fs' = [Tail(fs) EXCEPT ![1] = Advance(@)]
    /\ UNCHANGED <<MethArea, bytesRequested, Statics, StaticsArray, heap, clinitRuns,
                   fatal, thrown, hostExits, ArrayAddressList, initialized, nDirect, last>>

\* INVOKEVIRTUAL, INVOKESPECIAL, INVOKESTATIC after runFrame(fs) has returned an
\* error (lines 1453-1456, 1575-1578): the enclosing runFrame returns it, with
\* the frames left as they are; at depth 0 the error is with runThread (98-100)
ErrorReturn ==
    /\ ctl = "err"
    /\ depth > 0
    /\ depth' = depth - 1
    /\ UNCHANGED <<MethArea, bytesRequested, Statics, StaticsArray, heap, clinitRuns,
                   fatal, thrown, hostExits, ArrayAddressList, fs, ctl, initialized,
                   nDirect, last>>

\* the invocation resuming its caller with the callee's frame still in place
InvokeReturn_NoPop ==
    /\ ctl = "ret"
    /\ depth > 0
    /\ IF Len(fs) <= 1
       THEN fs' = <<>> /\ ctl' = "ret"
       ELSE fs' = [fs EXCEPT ![2] = Advance(@)] /\ ctl' = "run"
    /\ depth' = depth - 1
    /\ last' = [last EXCEPT !.op = "resumed"]
    /\ UNCHANGED <<MethArea, bytesRequested, Statics, StaticsArray, heap, clinitRuns,
                   fatal, thrown, hostExits, ArrayAddressList, initialized, nDirect>>

\* the tail of an invocation opcode (lines 1580-1595): the callee's runFrame has
\* returned nil; pop its frame and go on in the caller
InvokeReturn ==
    /\ ctl = "ret"
    /\ depth > 0
    /\ IF Len(fs) <= 1
       THEN fs' = <<>> /\ ctl' = "ret"
       ELSE fs' = [Tail(fs) EXCEPT ![1] = Advance(@)] /\ ctl' = "run"
    /\ depth' = depth - 1
    /\ last' = [last EXCEPT !.op = "resumed"]
    /\ UNCHANGED <<MethArea, bytesRequested, Statics, StaticsArray, heap, clinitRuns,
                   fatal, thrown, hostExits, ArrayAddressList, initialized, nDirect>>

\* the type assertion, if any, on a popped value
KindOk(kind, x) == kind = "any" \/ x.t = kind

\* xRETURN: pop the value, asserting its kind, push it count times on the frame
\* after the head of the frame stack, and return from runFrame
ReturnValue(name, kind, count) ==
    LET f == Top IN
    IF ~ CanPop(f, 1) \/ ~ KindOk(kind, peek(f))
    THEN Panic
    ELSE IF Len(fs) < 2                \* fs.Front().Next() is nil
         THEN Panic
         ELSE IF ~ CanPush(fs[2], count)
              THEN Panic
              ELSE LET valToReturn == peek(f)
                       caller == IF count = 2
                                 THEN push(push(fs[2], valToReturn), valToReturn)
                                 ELSE push(fs[2], valToReturn)
                   IN /\ fs' = [fs EXCEPT ![1] = pop(f), ![2] = caller]
                      /\ ctl' = "ret"
                      /\ last' = [op |-> name, name |-> f.MethName, err |-> FALSE,
                                  obj |-> valToReturn, returned |-> TRUE]
                      /\ UNCHANGED <<MethArea, bytesRequested, Statics, StaticsArray,
                                     heap, clinitRuns, fatal, thrown, hostExits, ArrayAddressList,
                                     depth, initialized, nDirect>>

Op_IRETURN ==
    /\ Running(IRETURN)
    /\ ReturnValue("ireturn", "any", 1)

Op_LRETURN ==
    /\ Running(LRETURN)
    /\ ReturnValue("lreturn", "int64", 2)

Op_FRETURN ==
    /\ Running(FRETURN)
    /\ ReturnValue("freturn", "float64", 1)

Op_DRETURN ==
    /\ Running(DRETURN)
    /\ ReturnValue("dreturn", "float64", 2)

Op_ARETURN ==
    /\ Running(ARETURN)
    /\ ReturnValue("areturn", "any", 1)

Op_RETURN ==
    /\ Running(RETURN)
    /\ fs' = [fs EXCEPT ![1] = [@ EXCEPT !.TOS = -1]]
    /\ ctl' = "ret"
    /\ last' = [op |-> "return", name |-> Top.MethName, err |-> FALSE,
                obj |-> NilPtr, returned |-> TRUE]
    /\ UNCHANGED <<MethArea, bytesRequested, Statics, StaticsArray, heap, clinitRuns,
                   fatal, thrown, hostExits, ArrayAddressList, depth, initialized, nDirect>>

----------------------------------------------------------------------------
(* The registry specification: direct instantiate calls, then a main method  *)
(* made of new and getstatic instructions.                                   *)

Instr(op, cpIdx) == <<op, cpIdx \div 256, cpIdx % 256>>

RegInstrs ==
    { Instr(NEW_OP, i) : i \in {11, 13, 15} }
      \cup { Instr(GETSTATIC, i) : i \in {21, 22} }

RECURSIVE Programs(_, _)
Programs(instrs, n) ==
    IF n = 0 THEN { <<>> }
    ELSE LET shorter == Programs(instrs, n - 1)
         IN shorter \cup { p \o i : p \in shorter, i \in instrs }

MainFrame(code, maxStack) ==
    [CreateFrame(maxStack) EXCEPT !.ClName = Str("Main"), !.MethName = Str("main"),
                                  !.Meth = code]

NoLast == [op |-> "none", name |-> <<>>, err |-> FALSE, obj |-> NilPtr, returned |-> TRUE]

InitRegistry ==
    /\ MethArea = <<>>
    /\ bytesRequested = <<>>
    /\ Statics = <<>>
    /\ StaticsArray = <<>>
    /\ ArrayAddressList = <<>>
    /\ heap = <<>>
    /\ clinitRuns = <<>>
    /\ fatal = <<>>
    /\ thrown = <<>>
    /\ initialized = {}
    /\ nDirect = 0
    /\ depth = 0
    /\ ctl = "start"
    /\ last = NoLast

Init ==
    /\ InitRegistry
    /\ hostExits \in BOOLEAN
    /\ \E code \in Programs(RegInstrs, MaxProgLen) : fs = <<MainFrame(code, MaxProgLen)>>

Next ==
    \/ \E c \in Names \cup ArrayNames \cup {JavaLangObject} : DirectInstantiate(c)
    \/ runThread
    \/ Op_NEW
    \/ Op_GETSTATIC
    \/ FrameEnd
    \/ ThreadLoop

Spec == Init /\ [][Next]_vars

----------------------------------------------------------------------------
(* Properties of the class registry *)

Base == Str("Base")
Derived == Str("Derived")
Orphan == Str("Orphan")

Runs(c) == IF c \in DOMAIN clinitRuns THEN clinitRuns[c] ELSE 0
Requested(tbl, c) == IF c \in DOMAIN tbl THEN tbl[c] ELSE 0

\* some step of instantiateClass(c), direct or through the new opcode
InstantiateStep(c) ==
    /\ DirectInstantiate(c) \/ Op_NEW
    /\ last'.op = "instantiate"
    /\ last'.name = c

C2_GetstaticAfterInit ==
    (last.op = "getstatic" /\ ~ last.err) => last.name \in initialized

\* C3: an entry of the statics table, once present, keeps its type and value
\* through every later step (the first inserted value wins, and a key is never
\* inserted a second time).
C3_FirstStaticWins ==
    [][\A key \in DOMAIN Statics :
          key \in DOMAIN Statics' /\ Statics'[key] = Statics[key]]_vars

C3_Witness ==
    /\ Runs(Base) >= 2
    /\ FullFieldName(Base, Str("s")) \in DOMAIN Statics
    /\ ~ Statics[FullFieldName(Base, Str("s"))].Lazy
    /\ Len(heap) >= 4

\* the value a ConstantValue attribute designates, per the registry's field
\* initialization policy
ExpectedConstant(cp, content) ==
    LET e == At(cp.CpIndex, content[1] * 256 + content[2])
    IN CASE e.Type = "IntConst"    -> [t |-> "int64", s |-> <<>>, v |-> At(cp.IntConsts, e.Slot)]
         [] e.Type = "LongConst"   -> [t |-> "int64", s |-> <<>>, v |-> At(cp.LongConsts, e.Slot)]
         [] e.Type = "FloatConst"  -> [t |-> "float64", s |-> <<>>, v |-> At(cp.Floats, e.Slot)]
         [] e.Type = "DoubleConst" -> [t |-> "float64", s |-> <<>>, v |-> At(cp.Doubles, e.Slot)]
         [] e.Type = "StringConst" -> [t |-> "obj", s |-> At(cp.Utf8Refs, e.Slot), v |-> 0]
         [] OTHER -> [t |-> "none", s |-> <<>>, v |-> 0]

\* what a statics entry holds, with a string object replaced by its content
Held(entry) ==
    IF entry.Value.t = "obj"
    THEN IF entry.Value.v \in 1..Len(heap) /\ heap[entry.Value.v].Klass = JavaLangString
         THEN [t |-> "obj", s |-> heap[entry.Value.v].Str, v |-> 0]
         ELSE [t |-> "obj", s |-> <<"?">>, v |-> 0]
    ELSE [t |-> entry.Value.t, s |-> <<>>, v |-> entry.Value.v]

HasConstantValue(k, f) ==
    \E j \in 1..Len(f.Attributes) :
        At(k.CP.Utf8Refs, f.Attributes[j].AttrName) = Str("ConstantValue")

\* C4: after a successful instantiate(C), the statics entry of every static field
\* of C with a ConstantValue attribute holds the designated constant.
C4_ConstantValueHeld ==
    (last.op = "instantiate" /\ ~ last.err /\ last.name \in DOMAIN Source) =>
        LET k == Source[last.name] IN
        \A i \in 1..Len(k.Fields) :
            LET f == k.Fields[i]
                key == FullFieldName(last.name, At(k.CP.Utf8Refs, f.Name))
            IN (f.IsStatic /\ HasConstantValue(k, f)) =>
                  /\ key \in DOMAIN Statics
                  /\ Held(Statics[key]) = ExpectedConstant(k.CP, f.Attributes[1].AttrContent)

\* C5: once a class is in the method area, no later step requests its bytes from
\* the class-bytes source again.
C5_LoadIdempotent ==
    [][\A c \in Names :
          MethAreaFetch(MethArea, c) =>
              Requested(bytesRequested', c) = Requested(bytesRequested, c)]_vars

C5_Witness ==
    /\ Runs(Base) >= 1
    /\ Runs(Derived) >= 2
    /\ Requested(bytesRequested, Base) = 1
    /\ Requested(bytesRequested, Derived) = 1

\* the load of class c fails: c or a class on its superclass chain has no bytes
RECURSIVE LoadFails(_)
LoadFails(c) ==
    \/ c \notin DOMAIN Source
    \/ Source[c].Superclass # JavaLangObject /\ LoadFails(Source[c].Superclass)

\* C6: an instantiate whose load fails returns an error and no object, invokes
\* on_fatal(APP_EXCEPTION), leaves the statics table unchanged and runs no <clinit>.
C6_LoadFailure ==
    [][\A c \in Names :
          (InstantiateStep(c) /\ LoadFails(c)) =>
              /\ last'.err
              /\ last'.obj = NilPtr
              /\ Len(fatal') > Len(fatal)
              /\ \A i \in (Len(fatal) + 1)..Len(fatal') : fatal'[i] = APP_EXCEPTION
              /\ Statics' = Statics
              /\ clinitRuns' = clinitRuns
              /\ heap' = heap]_vars

C6_Witness ==
    /\ last.op = "instantiate"
    /\ last.name = Orphan
    /\ last.err
    /\ Len(fatal) > 0
    /\ Runs(Base) >= 1
    /\ FullFieldName(Base, Str("x")) \in DOMAIN Statics

----------------------------------------------------------------------------
(* The arithmetic specification: one arithmetic opcode run on a frame whose  *)
(* operand stack holds its operands.                                         *)

IntValues == {MinInt, MinInt + 1, -7, -1, 0, 1, 2, 7, MaxInt - 1, MaxInt}
LongValues == {MinLong, -7, -1, 0, 1, 2, 7, MaxInt + 1, MaxLong}

IntOps == {IADD, ISUB, IMUL, IDIV, IREM}
LongOps == {LDIV, LREM}

\* a frame of the given code whose operand stack holds the given slots
LoadedFrame(code, slots, maxStack) ==
    [MainFrame(code, maxStack) EXCEPT
        !.TOS = Len(slots) - 1,
        !.OpStack = [i \in 1..maxStack |-> IF i <= Len(slots) THEN slots[i] ELSE I64(0)]]

InitArith ==
    /\ InitRegistry
    /\ hostExits \in BOOLEAN
    /\ \/ \E op \in IntOps, a \in IntValues, b \in IntValues :
             fs = <<LoadedFrame(<<op>>, <<I64(a), I64(b)>>, 2)>>
       \/ \E op \in LongOps, a \in LongValues, b \in LongValues :
             fs = <<LoadedFrame(<<op>>, <<I64(a), I64(a), I64(b), I64(b)>>, 4)>>

NextArith ==
    \/ runThread
    \/ Op_IADD
    \/ Op_ISUB
    \/ Op_IMUL
    \/ Op_IDIV
    \/ Op_LDIV
    \/ Op_IREM
    \/ Op_LREM
    \/ FrameEnd
    \/ ThreadLoop

SpecArith == InitArith /\ [][NextArith]_vars

InIntRange(n) == MinInt <= n /\ n <= MaxInt

\* a * b modulo 2^bits as a signed value, computed by halves
MulWrap(a, b, bits) ==
    LET h  == (bits + 1) \div 2
        B  == Pow2(h)
        ua == a % Pow2(bits)
        ub == b % Pow2(bits)
        lo == (ua % B) * (ub % B)
        mid == ((ua \div B) * (ub % B) + (ua % B) * (ub \div B)) % Pow2(bits - h)
    IN Wrap((lo + mid * B) % Pow2(bits), bits)

\* C9: for int operands, iadd, isub and imul pop both and push the sum, difference
\* and product wrapped to the width of an int, a value in [MinInt, MaxInt].
C9_IntWrap ==
    [][(Op_IADD \/ Op_ISUB \/ Op_IMUL) =>
          LET a == Slot(Top, 1).v
              b == Slot(Top, 0).v
              r == Slot(Top', 0).v
          IN /\ Top'.TOS = Top.TOS - 1
             /\ InIntRange(r)
             /\ Op_IADD => r = Wrap(a + b, IntBits)
             /\ Op_ISUB => r = Wrap(a - b, IntBits)
             /\ Op_IMUL => r = MulWrap(a, b, IntBits)]_vars

\* the quotient of x by y truncated toward zero, and the matching remainder
Quotient(x, y) ==
    LET q == Abs(x) \div Abs(y)
    IN IF (x < 0) = (y < 0) THEN q ELSE - q
Remainder(x, y) == x - Quotient(x, y) * y

DivStep == Op_IDIV \/ Op_LDIV \/ Op_IREM \/ Op_LREM

\* C10: idiv, irem, ldiv and lrem with a zero divisor on top of the stack raise
\* ArithmeticException and call the host's on_fatal(APP_EXCEPTION), whatever the
\* dividend, and push nothing: the divisor is popped and the slots under it are
\* left as they were.  With a non-zero divisor they replace the operands by the
\* quotient (idiv, ldiv) or the remainder (irem, lrem) of the dividend by the
\* divisor, a long in both of its slots, and raise nothing.
C10_DivideByZero ==
    [][DivStep =>
          LET w == IF Op_LDIV \/ Op_LREM THEN 2 ELSE 1
              divisor == Slot(Top, 0).v
              dividend == Slot(Top, w).v
              expected == IF Op_IDIV \/ Op_LDIV
                          THEN Wrap(Quotient(dividend, divisor), LongBits)
                          ELSE Remainder(dividend, divisor)
          IN IF divisor = 0
             THEN /\ thrown' = Append(thrown, "ArithmeticException")
                  /\ fatal' = Append(fatal, APP_EXCEPTION)
                  /\ Top'.TOS = Top.TOS - w
                  /\ Top'.OpStack = Top.OpStack
             ELSE /\ thrown' = thrown
                  /\ fatal' = fatal
                  /\ ctl' = "run"
                  /\ Top'.TOS = Top.TOS - w
                  /\ \A i \in 0..(w - 1) : Slot(Top', i) = I64(expected)]_vars

C10_Witness ==
    /\ thrown = <<"ArithmeticException">>
    /\ fatal = <<APP_EXCEPTION>>
    /\ Top.Meth = <<LREM>>
    /\ Top.TOS = 1
    /\ Slot(Top, 0) = I64(MinLong)

----------------------------------------------------------------------------
(* The call specification: Calc is loaded; main either invokes one overload  *)
(* of Calc.m with its arguments on the operand stack, or is itself a method  *)
(* that ends with a return opcode.                                          *)

Calc == Str("Calc")

\* the values a caller may hold for a parameter: a reference is a heap object or
\* the null that aconst_null pushes
ArgValues(param) ==
    IF param[1] \in {"[", "L"} THEN {<<Ptr(1)>>, <<I64(0)>>}
    ELSE IF param[1] = "J" THEN {<<I64(MaxLong), I64(MaxLong)>>, <<I64(-7), I64(-7)>>}
    ELSE IF param[1] = "D" THEN {<<F64(40), F64(40)>>}
    ELSE IF param[1] = "F" THEN {<<F64(24)>>, <<F64(-8)>>}
    ELSE IF param[1] = "Z" THEN {<<I64(1)>>}
    ELSE {<<I64(-1)>>, <<I64(7)>>}

RECURSIVE ArgStacks(_)
ArgStacks(params) ==
    IF params = <<>> THEN {<<>>}
    ELSE {a \o rest : a \in ArgValues(params[1]), rest \in ArgStacks(Tail(params))}

Max(a, b) == IF a >= b THEN a ELSE b

----------------------------------------------------------------------------
(* Instance fields: run.go                                                  *)

GETFIELD == 180
PUTFIELD == 181

\* GETFIELD and PUTFIELD: the entry of the constant pool must be a FieldRef; its
\* Slot is the index into the Fields of the object the popped reference points
\* to. The FieldTable of the object is not consulted.
Op_fieldAccess ==
    \E op \in {GETFIELD, PUTFIELD} :
      /\ Running(op)
      /\ LET f == Top
             refAt == IF op = GETFIELD THEN 0 ELSE 1
             get(f1, fieldValue) ==
                 /\ fs' = [fs EXCEPT ![1] = Advance(push(f1, fieldValue))]
                 /\ heap' = heap
             put(f1, ref, slot, value) ==
                 /\ fs' = [fs EXCEPT ![1] = Advance(f1)]
                 /\ heap' = [heap EXCEPT ![ref.v].Fields[slot + 1].Fvalue = value]
             access(f1, fieldEntry, ref) ==
                 IF \/ ~ IsObject(ref) \/ ref = NilPtr
                    \/ ~ InRange(heap[ref.v].Fields, fieldEntry.Slot)
                 THEN Panic
                 ELSE /\ IF op = GETFIELD
                         THEN get(popN(f1, 1), At(heap[ref.v].Fields, fieldEntry.Slot).Fvalue)
                         ELSE put(popN(f1, 2), ref, fieldEntry.Slot, Slot(f, 0))
                      /\ UNCHANGED <<MethArea, bytesRequested, Statics, StaticsArray,
                                     clinitRuns, fatal, thrown, hostExits, ArrayAddressList,
                                     depth, ctl, initialized, nDirect, last>>
             checked(f1, fieldEntry) ==
                 IF fieldEntry.Type # "FieldRef"
                 THEN ReturnError(f1)
                 ELSE IF ~ CanPop(f, refAt + 1)
                      THEN Panic
                      ELSE access(f1, fieldEntry, Slot(f, refAt))
         IN IF ~ HasOperands(f, 2) \/ ~ InRange(f.CP.CpIndex, CPslotOf(f))
            THEN Panic
            ELSE checked([f EXCEPT !.PC = @ + 2], At(f.CP.CpIndex, CPslotOf(f)))

CallFrame(code, slots) ==
    [LoadedFrame(code, slots, Max(Len(slots) + 1, 2)) EXCEPT !.CP = CallPool]

MainCodes ==
    { <<ICONST_1, ICONST_2, IADD, IRETURN>>, <<LCONST_1, LRETURN>>, <<FCONST_2, FRETURN>>,
      <<DCONST_1, DRETURN>>, <<ACONST_NULL, ARETURN>>, <<RETURN>>, <<ICONST_1>>,
      <<ACONST_NULL>> \o Instr(INVOKESPECIAL, MethodRefOf(6)) \o <<RETURN>>,
      Instr(INVOKEVIRTUAL, 2), Instr(INVOKESPECIAL, 2), Instr(INVOKESTATIC, 2),
      Instr(GETSTATIC, 2), Instr(GETFIELD, 2), Instr(PUTFIELD, 2),
      <<ACONST_NULL, ICONST_1>> \o Instr(INVOKESTATIC, 3),
      <<ACONST_NULL, ICONST_1>> \o Instr(INVOKEVIRTUAL, 3),
      <<ACONST_NULL, ICONST_1>> \o Instr(INVOKESPECIAL, 3),
      <<ACONST_NULL, ICONST_1>> \o Instr(GETSTATIC, 3),
      <<ACONST_NULL, ICONST_1>> \o Instr(GETFIELD, 3),
      <<ACONST_NULL, ICONST_1>> \o Instr(PUTFIELD, 3) }

InitCall ==
    /\ MethArea = (Calc :> "Loaded")
    /\ bytesRequested = (Calc :> 1)
    /\ Statics = <<>>
    /\ StaticsArray = <<>>
    /\ ArrayAddressList = <<>>
    /\ heap = <<NewObject(Calc, <<>>, <<>>, <<>>)>>
    /\ clinitRuns = <<>>
    /\ fatal = <<>>
    /\ thrown = <<>>
    /\ hostExits \in BOOLEAN
    /\ depth = 0
    /\ ctl = "start"
    /\ initialized = {Calc}
    /\ nDirect = 0
    /\ last = NoLast
    /\ \/ \E k \in 0..(NumCalc - 1) :
            \E args \in ArgStacks(ParseIncomingParamsFromMethTypeString(At(CallDescs, k))) :
               \/ fs = <<CallFrame(Instr(INVOKESTATIC, MethodRefOf(k)) \o <<RETURN>>, args)>>
               \/ \E op \in {INVOKESPECIAL, INVOKEVIRTUAL}, this \in {Ptr(1), I64(0)} :
                     fs = <<CallFrame(Instr(op, MethodRefOf(k)) \o <<RETURN>>,
                                      <<this>> \o args)>>
       \/ \E code \in MainCodes : fs = <<CallFrame(code, <<>>)>>

NextCall ==
    \/ runThread
    \/ Op_ACONST_NULL
    \/ Op_ICONST_1
    \/ Op_ICONST_2
    \/ Op_LCONST_1
    \/ Op_FCONST_2
    \/ Op_DCONST_1
    \/ Op_IADD
    \/ Op_INVOKEVIRTUAL
    \/ Op_INVOKESPECIAL
    \/ Op_INVOKESTATIC
    \/ Op_GETSTATIC
    \/ Op_fieldAccess
    \/ InvokeReturn
    \/ ErrorReturn
    \/ Op_IRETURN
    \/ Op_LRETURN
    \/ Op_FRETURN
    \/ Op_DRETURN
    \/ Op_ARETURN
    \/ Op_RETURN
    \/ FrameEnd
    \/ ThreadLoop

SpecCall == InitCall /\ [][NextCall]_vars

(* Properties of invocation and return *)

\* C7: a callee that executes ireturn, freturn or areturn with v on top of its
\* operand stack hands v to its caller as one new top slot, lreturn and dreturn
\* as two, return hands over nothing; runFrame then returns without error, also
\* when the returning method is main, the bottom frame.  When the caller resumes,
\* the callee's frame is gone and the caller, its stack as the callee left it, is
\* the head of the frame stack at the next instruction.
C7_ReturnToCaller ==
    [][/\ (Op_IRETURN \/ Op_FRETURN \/ Op_ARETURN) /\ Top.TOS >= 0 =>
             /\ ctl' = "ret"
             /\ Len(fs) >= 2 => /\ fs'[2].TOS = fs[2].TOS + 1
                                /\ peek(fs'[2]) = peek(Top)
       /\ (Op_LRETURN \/ Op_DRETURN) /\ Top.TOS >= 0 =>
             /\ ctl' = "ret"
             /\ Len(fs) >= 2 => /\ fs'[2].TOS = fs[2].TOS + 2
                                /\ Slot(fs'[2], 0) = peek(Top)
                                /\ Slot(fs'[2], 1) = peek(Top)
       /\ Op_RETURN =>
             /\ ctl' = "ret"
             /\ Len(fs) >= 2 => fs'[2] = fs[2]
       /\ InvokeReturn =>
             /\ ctl' = "run"
             /\ fs' = [Tail(fs) EXCEPT ![1].PC = @ + 1]]_vars

\* the operand-stack slots a parameter takes
SlotsOf(param) == IF param[1] \in {"J", "D"} THEN 2 ELSE 1

RECURSIVE TotalSlots(_)
TotalSlots(params) ==
    IF params = <<>> THEN 0 ELSE SlotsOf(params[1]) + TotalSlots(Tail(params))

\* the method an invocation opcode at the head frame designates
Invoked ==
    LET f == Top
        info == MethodOf(f.CP, At(f.CP.CpIndex, CPslotOf(f)))
    IN [ params |-> ParseIncomingParamsFromMethTypeString(info.methodType),
         entry  |-> FetchMethodAndCP(MethArea, info.className, info.methodName,
                                     info.methodType) ]

AtMethodRef ==
    /\ HasOperands(Top, 2)
    /\ InRange(Top.CP.CpIndex, CPslotOf(Top))
    /\ At(Top.CP.CpIndex, CPslotOf(Top)).Type = "MethodRef"

\* C8: an invocation of a bytecode method takes the parameters' slots (two for J
\* and D, one otherwise, one for an array) off the caller's operand stack, and one
\* more for the receiver of invokespecial and invokevirtual; the new frame starts
\* with TOS = -1 and max_locals locals, which hold the receiver first, if there is
\* one, and then the parameters' slots in the order they had on the caller's stack.
C8_ParamPassing ==
    [][(Op_INVOKESTATIC \/ Op_INVOKESPECIAL \/ Op_INVOKEVIRTUAL) /\ AtMethodRef =>
          LET f == Top
              n == TotalSlots(Invoked.params)
              recv == IF Op_INVOKESTATIC THEN 0 ELSE 1
              m == Invoked.entry.Meth
          IN /\ ctl' = "run"
             /\ Len(fs') = Len(fs) + 1
             /\ fs'[2].TOS = f.TOS - n - recv
             /\ fs'[1].TOS = -1
             /\ Len(fs'[1].Locals) = m.MaxLocals
             /\ recv = 1 => At(fs'[1].Locals, 0) = Slot(f, n)
             /\ \A i \in 0..(n - 1) :
                   At(fs'[1].Locals, recv + i) = Slot(f, n - 1 - i)]_vars

----------------------------------------------------------------------------
(* Arrays: run.go                                                           *)
(* An array is an object whose Fields[0] holds the type "[x" and, as its     *)
(* value, the backing slice: its Go element type t and its elements v.       *)

IALOAD == 46
LALOAD == 47
FALOAD == 48
DALOAD == 49
AALOAD == 50
BALOAD == 51
CALOAD == 52
SALOAD == 53
IASTORE == 79
LASTORE == 80
FASTORE == 81
DASTORE == 82
AASTORE == 83
BASTORE == 84
CASTORE == 85
SASTORE == 86
NEWARRAY == 188
ANEWARRAY == 189
ARRAYLENGTH == 190

\* object.JdkArrayTypeToJacobinType: the array type of a newarray type code
JdkArrayTypeToJacobinType(arrayType) ==
    CASE arrayType \in {4, 8} -> "B"
      [] arrayType \in {6, 7} -> "F"
      [] arrayType \in {5, 9, 10, 11} -> "I"
      [] OTHER -> "ERROR"

\* object.Make1DimArray: primitive buffers are zeroed, reference buffers hold nil
Make1DimArray(arrType, size) ==
    LET zero == CASE arrType = "L" -> NilPtr
                  [] arrType = "F" -> F64(0)
                  [] OTHER -> I64(0)
    IN NewObject(<<>>,
                 << [Ftype |-> <<"[", arrType>>,
                     Fvalue |-> [t |-> arrType, v |-> [i \in 1..size |-> zero]]] >>,
                 <<>>, <<>>)

\* the handler reporting the exception without calling shutdown.Exit
ThrowAndPanic_NoExit(f, exc) ==
    /\ thrown' = Append(thrown, exc)
    /\ ctl' = "panic"
    /\ fs' = [fs EXCEPT ![1] = f]
    /\ UNCHANGED <<MethArea, bytesRequested, Statics, StaticsArray, heap, clinitRuns,
                   fatal, hostExits, ArrayAddressList, depth, initialized, nDirect, last>>

\* exceptions.Throw(exc, msg) and shutdown.Exit(APP_EXCEPTION) in a handler that
\* has no else branch: when Exit returns, the handler goes on to the access that
\* the test guarded, and the Go runtime panics there
ThrowAndPanic(f, exc) ==
    /\ thrown' = Append(thrown, exc)
    /\ fatal' = Append(fatal, APP_EXCEPTION)
    /\ ctl' = IF hostExits THEN "exited" ELSE "panic"
    /\ fs' = [fs EXCEPT ![1] = f]
    /\ UNCHANGED <<MethArea, bytesRequested, Statics, StaticsArray, heap, clinitRuns,
                   hostExits, ArrayAddressList, depth, initialized, nDirect, last>>

\* *(ref.Fields[0].Fvalue).(*[]T): the backing slice of the object, if it has a
\* first field and that field holds a slice of element type buf
Backing(hp, ref, buf) ==
    IF /\ ref.v \in 1..Len(hp)
       /\ Len(hp[ref.v].Fields) > 0
       /\ hp[ref.v].Fields[1].Fvalue.t = buf
    THEN [ok |-> TRUE, elems |-> hp[ref.v].Fields[1].Fvalue.v]
    ELSE [ok |-> FALSE, elems |-> <<>>]

Op_xALOAD ==
    \E op \in {IALOAD, LALOAD, FALOAD, DALOAD, AALOAD, BALOAD, CALOAD, SALOAD} :
    /\ Running(op)
    /\ LET f == Top
           \* the slice type the handler asserts and the slots it pushes
           buf == CASE op \in {IALOAD, CALOAD, SALOAD, LALOAD} -> "I"
                    [] op \in {FALOAD, DALOAD} -> "F"
                    [] op = AALOAD -> "L"
                    [] op = BALOAD -> "B"
           wide == op \in {LALOAD, DALOAD}
           loaded(f2, index, array) ==
               IF ~ array.ok THEN Panic
               ELSE IF index >= Len(array.elems)
                    THEN ThrowAndPanic(f2, "ArrayIndexOutOfBoundsException")
                    ELSE IF index < 0 THEN Panic
                    ELSE FrameStep(IF wide
                                   THEN push(push(f2, At(array.elems, index)),
                                             At(array.elems, index))
                                   ELSE push(f2, At(array.elems, index)))
       IN IF ~ CanPop(f, 2) \/ ~ IsInt64(Slot(f, 0)) \/ ~ IsObject(Slot(f, 1))
          THEN Panic
          ELSE IF Slot(f, 1) = NilPtr
               THEN ThrowAndPanic(popN(f, 2), "NullPointerException")
               ELSE loaded(popN(f, 2), Slot(f, 0).v, Backing(heap, Slot(f, 1), buf))

Op_xASTORE ==
    \E op \in {IASTORE, LASTORE, FASTORE, DASTORE, AASTORE, BASTORE, CASTORE, SASTORE} :
    /\ Running(op)
    /\ LET f == Top
           \* the kind of value popped, its slots, the Ftype tested, the slice type
           val == CASE op \in {IASTORE, CASTORE, SASTORE, LASTORE} -> "int64"
                    [] op \in {FASTORE, DASTORE} -> "float64"
                    [] op = AASTORE -> "obj"
                    [] op = BASTORE -> "any"
           w == IF op \in {LASTORE, DASTORE} THEN 2 ELSE 1
           ftype == CASE op \in {IASTORE, CASTORE, SASTORE, LASTORE} -> "I"
                      [] op \in {FASTORE, DASTORE} -> "F"
                      [] op = AASTORE -> "L"
                      [] op = BASTORE -> "B"
           convertInterfaceToInt8(x) == IF IsInt64(x) THEN I64(Wrap(x.v, 8)) ELSE I64(0)
           stored(x) == IF op = BASTORE THEN convertInterfaceToInt8(x) ELSE x
           store(f2, value, index, ref, array) ==
               IF Len(heap[ref.v].Fields) = 0 THEN Panic
               ELSE IF op # AASTORE /\ heap[ref.v].Fields[1].Ftype # <<"[", ftype>>
                    THEN ThrowAndPanic(f2, "ArrayStoreException")
                    ELSE IF ~ array.ok THEN Panic
                    ELSE IF index >= Len(array.elems)
                         THEN ThrowAndPanic(f2, "ArrayIndexOutOfBoundsException")
                         ELSE IF index < 0 THEN Panic
                         ELSE /\ heap' = [heap EXCEPT
                                            ![ref.v].Fields[1].Fvalue.v[index + 1] =
                                                stored(value)]
                              /\ fs' = [fs EXCEPT ![1] = Advance(f2)]
                              /\ UNCHANGED <<MethArea, bytesRequested, Statics,
                                             StaticsArray, clinitRuns, fatal, thrown,
                                             hostExits, ArrayAddressList, depth, ctl,
                                             initialized, nDirect, last>>
       IN IF \/ ~ CanPop(f, w + 2)
             \/ ~ KindOk(val, Slot(f, 0))
             \/ ~ IsInt64(Slot(f, w))
             \/ ~ IsObject(Slot(f, w + 1))
          THEN Panic
          ELSE IF Slot(f, w + 1) = NilPtr
               THEN ThrowAndPanic(popN(f, w + 2), "NullPointerException")
               ELSE store(popN(f, w + 2), Slot(f, 0), Slot(f, w).v, Slot(f, w + 1),
                          Backing(heap, Slot(f, w + 1), ftype))

Op_ARRAYLENGTH ==
    /\ Running(ARRAYLENGTH)
    /\ LET f == Top
           \* the slice type asserted for the object's Ftype (lines 1675-1688)
           bufOf(arrayType) ==
               IF arrayType \in {<<"[", "B">>, <<"[", "L">>, <<"[", "F">>}
               THEN arrayType[2] ELSE "I"
           sized(f1, array) ==
               IF ~ array.ok THEN Panic
               ELSE FrameStep(push(f1, I64(Len(array.elems))))
       IN IF ~ CanPop(f, 1) \/ ~ IsObject(Slot(f, 0))
          THEN Panic
          ELSE IF Slot(f, 0) = NilPtr
               THEN ThrowAndPanic(pop(f), "NullPointerException")
               ELSE IF Len(heap[Slot(f, 0).v].Fields) = 0 THEN Panic
               ELSE sized(pop(f), Backing(heap, Slot(f, 0),
                                          bufOf(heap[Slot(f, 0).v].Fields[1].Ftype)))

Op_NEWARRAY ==
    /\ Running(NEWARRAY)
    /\ LET f == Top
           \* what the size test has thrown, and how the handler ends without an array
           raised(size) == IF size < 0 THEN <<"NegativeArraySizeException">> ELSE <<>>
           ended(f1, size, how) ==
               /\ thrown' = thrown \o raised(size)
               /\ fatal' = fatal \o [i \in 1..Len(raised(size)) |-> APP_EXCEPTION]
               /\ ctl' = how
               /\ fs' = [fs EXCEPT ![1] = f1]
               /\ UNCHANGED <<MethArea, bytesRequested, Statics, StaticsArray, heap,
                              clinitRuns, hostExits, ArrayAddressList, depth,
                              initialized, nDirect, last>>
           make(f1, size, actualType) ==
               IF actualType = "ERROR" THEN ended(f1, size, "err")
               ELSE IF size < 0 THEN ended(f1, size, "panic")
               ELSE /\ heap' = Append(heap, Make1DimArray(actualType, size))
                    /\ ArrayAddressList' = <<Ptr(Len(heap) + 1)>> \o ArrayAddressList
                    /\ fs' = [fs EXCEPT ![1] = Advance(push(f1, Ptr(Len(heap) + 1)))]
                    /\ UNCHANGED <<MethArea, bytesRequested, Statics, StaticsArray,
                                   clinitRuns, fatal, thrown, hostExits, depth, ctl,
                                   initialized, nDirect, last>>
           sizeOf(f1, size) ==
               IF size < 0 /\ hostExits THEN ended(f1, size, "exited")
               ELSE IF ~ HasOperands(f, 1) THEN ended(f1, size, "panic")
               ELSE make([f1 EXCEPT !.PC = @ + 1], size,
                         JdkArrayTypeToJacobinType(At(f.Meth, f.PC + 1)))
       IN IF ~ CanPop(f, 1) \/ ~ IsInt64(Slot(f, 0))
          THEN Panic
          ELSE sizeOf(pop(f), Slot(f, 0).v)

Op_ANEWARRAY ==
    /\ Running(ANEWARRAY)
    /\ LET f == Top
           sizeOf(f1, size) ==
               IF size < 0
               THEN ThrowAndPanic(f1, "NegativeArraySizeException")
               ELSE /\ heap' = Append(heap, Make1DimArray("L", size))
                    /\ ArrayAddressList' = <<Ptr(Len(heap) + 1)>> \o ArrayAddressList
                    /\ fs' = [fs EXCEPT ![1] =
                                Advance([push(f1, Ptr(Len(heap) + 1)) EXCEPT !.PC = @ + 2])]
                    /\ UNCHANGED <<MethArea, bytesRequested, Statics, StaticsArray,
                                   clinitRuns, fatal, thrown, hostExits, depth, ctl,
                                   initialized, nDirect, last>>
       IN IF ~ CanPop(f, 1) \/ ~ IsInt64(Slot(f, 0))
          THEN Panic
          ELSE sizeOf(pop(f), Slot(f, 0).v)

----------------------------------------------------------------------------
(* Constants from the constant pool: runTimeUtils.go, run.go                *)

LDC == 18
LDC_W == 19
LDC2_W == 20

IS_ERROR == 0
IS_STRUCT_ADDR == 1
IS_FLOAT64 == 2
IS_INT64 == 3
IS_STRING_ADDR == 4

\* classloader.LongConst and classloader.DoubleConst: the tags of the class file
LongConst == 5
DoubleConst == 6

\* FetchCPentry returns a cpType: the composite literals name entryType and one
\* value field, and every other field, retType among them, keeps its zero value.
\* An address is modelled by the position it points to, counted from 1.
FetchCPentry(cp, index) ==
    LET cpType == [entryType |-> 0, retType |-> 0, intVal |-> 0, floatVal |-> 0,
                   addrVal |-> 0]
        typed(entry) ==
            CASE entry.Type = "IntConst" ->
                   [cpType EXCEPT !.entryType = IS_INT64,
                                  !.intVal = At(cp.IntConsts, entry.Slot)]
              [] entry.Type = "LongConst" ->
                   [cpType EXCEPT !.entryType = IS_INT64,
                                  !.intVal = At(cp.LongConsts, entry.Slot)]
              [] entry.Type = "MethodType" ->
                   [cpType EXCEPT !.entryType = IS_INT64,
                                  !.intVal = At(cp.MethodTypes, entry.Slot)]
              [] entry.Type = "FloatConst" ->
                   [cpType EXCEPT !.entryType = IS_FLOAT64,
                                  !.floatVal = At(cp.Floats, entry.Slot)]
              [] entry.Type = "DoubleConst" ->
                   [cpType EXCEPT !.entryType = IS_FLOAT64,
                                  !.floatVal = At(cp.Doubles, entry.Slot)]
              [] entry.Type \in {"ClassRef", "UTF8"} ->
                   [cpType EXCEPT !.entryType = IS_STRING_ADDR,
                                  !.addrVal = entry.Slot + 1]
              [] OTHER -> cpType
    IN IF index < 1 \/ index >= Len(cp.CpIndex)
       THEN cpType
       ELSE typed(At(cp.CpIndex, index))

Op_LDC ==
    /\ Running(LDC)
    /\ LET f == Top
           step(f1, hp) ==
               /\ fs' = [fs EXCEPT ![1] = Advance(f1)]
               /\ heap' = hp
               /\ UNCHANGED <<MethArea, bytesRequested, Statics, StaticsArray, clinitRuns,
                              fatal, thrown, hostExits, ArrayAddressList, depth, ctl,
                              initialized, nDirect, last>>
           \* object.CreateJavaStringFromGoString(CPe.stringVal): cpType declares no
           \* stringVal, the text is the zero value of a string
           string(f1, n) == step(push(f1, n.ref), n.heap)
           fetched(f1, CPe) ==
               IF /\ CPe.entryType # 0
                  /\ CPe.entryType # DoubleConst
                  /\ CPe.entryType # LongConst
               THEN CASE CPe.retType = IS_INT64 -> step(push(f1, I64(CPe.intVal)), heap)
                      [] CPe.retType = IS_FLOAT64 -> step(push(f1, F64(CPe.floatVal)), heap)
                      [] CPe.retType = IS_STRUCT_ADDR ->
                           step(push(f1, [t |-> "unsafe.Pointer", v |-> CPe.addrVal]), heap)
                      [] CPe.retType = IS_STRING_ADDR ->
                           string(f1, NewStringFromGoString(heap, <<>>))
                      [] OTHER -> step(f1, heap)
               ELSE ThrowAndExit(f1, "InaccessibleObjectException")
       IN IF ~ HasOperands(f, 1) \/ ~ CanPush(f, 1)
          THEN Panic
          ELSE fetched([f EXCEPT !.PC = @ + 1], FetchCPentry(f.CP, At(f.Meth, f.PC + 1)))

Op_LDC_W ==
    /\ Running(LDC_W)
    /\ LET f == Top
           fetched(f1, CPe) ==
               IF /\ CPe.entryType # 0
                  /\ CPe.entryType # DoubleConst
                  /\ CPe.entryType # LongConst
               THEN CASE CPe.retType = IS_INT64 -> FrameStep(push(f1, I64(CPe.intVal)))
                      [] CPe.retType = IS_FLOAT64 -> FrameStep(push(f1, F64(CPe.floatVal)))
                      [] OTHER -> FrameStep(push(f1, [t |-> "unsafe.Pointer", v |-> CPe.addrVal]))
               ELSE ThrowAndExit(f1, "InaccessibleObjectException")
       IN IF ~ HasOperands(f, 2) \/ ~ CanPush(f, 1)
          THEN Panic
          ELSE fetched([f EXCEPT !.PC = @ + 2], FetchCPentry(f.CP, CPslotOf(f)))

Op_LDC2_W ==
    /\ Running(LDC2_W)
    /\ LET f == Top
           fetched(f1, CPe) ==
               CASE CPe.retType = IS_INT64 ->
                      FrameStep(push(push(f1, I64(CPe.intVal)), I64(CPe.intVal)))
                 [] CPe.retType = IS_FLOAT64 ->
                      FrameStep(push(push(f1, F64(CPe.floatVal)), F64(CPe.floatVal)))
                 [] OTHER -> ThrowAndExit(f1, "InaccessibleObjectException")
       IN IF ~ HasOperands(f, 2) \/ ~ CanPush(f, 2)
          THEN Panic
          ELSE fetched([f EXCEPT !.PC = @ + 2], FetchCPentry(f.CP, CPslotOf(f)))

----------------------------------------------------------------------------
(* Arithmetic on longs and doubles: run.go                                  *)

LADD == 97
DADD == 99
LSUB == 101
DSUB == 103
LMUL == 105
DMUL == 107
DDIV == 111
DREM == 115
LAND == 127
LOR == 129
LXOR == 131

\* The binary opcodes on two-slot values. Each pops its first operand with a type
\* assertion, then a slot, then the second operand in the same way, then a slot.
\* A float64 counts FUnit-ths and the inputs are chosen so that every product and
\* quotient is exact; NaN and the infinities are values of their own; the sign of
\* a zero is not kept.
Op_wideBinary ==
    \E op \in {LADD, DADD, LSUB, DSUB, LMUL, DMUL, DDIV, DREM, LAND, LOR, LXOR} :
      /\ Running(op)
      /\ LET f == Top
             float == op \in {DADD, DSUB, DMUL, DDIV, DREM}
             kindOk(x) == IF float THEN IsFloat64(x) ELSE IsInt64(x)
             special(name) == [t |-> "float64", v |-> name]
             unsigned(x) == x % Pow2(LongBits)
             bit(a, b) == CASE op = LAND -> a * b
                            [] op = LOR -> a + b - a * b
                            [] OTHER -> (a + b) % 2
             RECURSIVE bitwise(_, _, _)
             bitwise(x, y, n) ==
                 IF n = 0 THEN 0
                 ELSE bit(x % 2, y % 2) + 2 * bitwise(x \div 2, y \div 2, n - 1)
             \* math.Remainder: x - n*y with n the integer nearest to x/y, an even n
             \* when two are as near
             nearest(x, a, q, r) ==
                 CASE 2 * r < a -> r
                   [] 2 * r > a -> r - a
                   [] OTHER -> IF q % 2 = 0 THEN r ELSE r - a
             mathRemainder(x, y) == nearest(x, Abs(y), x \div Abs(y), x % Abs(y))
             once(f1, res) == FrameStep(push(f1, res))
             twice(f1, res) == FrameStep(push(push(f1, res), res))
             \* first: the operand popped first (the top of the stack)
             compute(f1, first, second) ==
                 CASE op = LADD -> twice(f1, I64(add(second, first)))
                   [] op = DADD -> twice(f1, F64(first + second))
                   [] op = LSUB -> twice(f1, I64(subtract(second, first)))
                   [] op = DSUB -> twice(f1, F64(second - first))
                   [] op = LMUL -> twice(f1, I64(multiply(second, first)))
                   [] op = DMUL -> twice(f1, F64((first * second) \div FUnit))
                   [] op = DDIV ->
                        IF first = 0
                        THEN IF second = 0
                             THEN once(f1, special("NaN"))
                             ELSE once(f1, special("-Inf"))
                        ELSE twice(f1, F64((second * FUnit) \div first))
                   [] op = DREM ->
                        IF first = 0
                        THEN once(f1, special("NaN"))
                        ELSE once(f1, F64(mathRemainder(second, first)))
                   [] OTHER ->
                        twice(f1, I64(Wrap(bitwise(unsigned(first), unsigned(second),
                                                   LongBits), LongBits)))
         IN IF ~ CanPop(f, 4) \/ ~ kindOk(Slot(f, 0)) \/ ~ kindOk(Slot(f, 2))
            THEN Panic
            ELSE compute(popN(f, 4), Slot(f, 0).v, Slot(f, 2).v)

----------------------------------------------------------------------------
(* Longs and doubles in the local variables: run.go                         *)

LLOAD == 22
DLOAD == 24
LLOAD_0 == 30
LLOAD_1 == 31
LLOAD_2 == 32
LLOAD_3 == 33
DLOAD_0 == 38
DLOAD_1 == 39
DLOAD_2 == 40
DLOAD_3 == 41
LSTORE == 55
DSTORE == 57
LSTORE_0 == 63
LSTORE_1 == 64
LSTORE_2 == 65
LSTORE_3 == 66
DSTORE_0 == 71
DSTORE_1 == 72
DSTORE_2 == 73
DSTORE_3 == 74

\* LLOAD, DLOAD and the opcodes that name the local variable themselves
Op_wideLoad ==
    \E op \in {LLOAD, DLOAD, LLOAD_0, LLOAD_1, LLOAD_2, LLOAD_3,
               DLOAD_0, DLOAD_1, DLOAD_2, DLOAD_3} :
      /\ Running(op)
      /\ LET f == Top
             indexed == op \in {LLOAD, DLOAD}
             index == CASE indexed -> At(f.Meth, f.PC + 1)
                        [] op \in LLOAD_0..LLOAD_3 -> op - LLOAD_0
                        [] OTHER -> op - DLOAD_0
             \* DLOAD_0..DLOAD_3 push the local variable as it is
             asserted(val) == CASE op = DLOAD -> IsFloat64(val)
                                [] op \in DLOAD_0..DLOAD_3 -> TRUE
                                [] OTHER -> IsInt64(val)
             load(f1, val) ==
                 IF ~ asserted(val) \/ ~ CanPush(f1, 2)
                 THEN Panic
                 ELSE FrameStep(push(push(f1, val), val))
         IN IF (indexed /\ ~ HasOperands(f, 1)) \/ ~ InRange(f.Locals, index)
            THEN Panic
            ELSE load(IF indexed THEN [f EXCEPT !.PC = @ + 1] ELSE f, At(f.Locals, index))

\* LSTORE, DSTORE and the opcodes that name the local variable themselves
Op_wideStore ==
    \E op \in {LSTORE, DSTORE, LSTORE_0, LSTORE_1, LSTORE_2, LSTORE_3,
               DSTORE_0, DSTORE_1, DSTORE_2, DSTORE_3} :
      /\ Running(op)
      /\ LET f == Top
             indexed == op \in {LSTORE, DSTORE}
             index == CASE indexed -> At(f.Meth, f.PC + 1)
                        [] op \in LSTORE_0..LSTORE_3 -> op - LSTORE_0
                        [] OTHER -> op - DSTORE_0
             kindOk(x) == IF op = LSTORE \/ op \in LSTORE_0..LSTORE_3
                          THEN IsInt64(x) ELSE IsFloat64(x)
             store(f1, first, second) ==
                 CASE indexed ->
                        IF ~ kindOk(first) \/ ~ kindOk(second)
                           \/ ~ InRange(f1.Locals, index + 1)
                        THEN Panic
                        ELSE FrameStep([f1 EXCEPT !.Locals[index + 1] = first,
                                                  !.Locals[index + 2] = second])
                  [] op \in LSTORE_0..LSTORE_3 ->
                        IF ~ kindOk(first) \/ ~ InRange(f1.Locals, index + 1)
                        THEN Panic
                        ELSE FrameStep([f1 EXCEPT !.Locals[index + 1] = first,
                                                  !.Locals[index + 2] = first])
                  [] OTHER ->
                        IF ~ kindOk(second) \/ ~ InRange(f1.Locals, index)
                        THEN Panic
                        ELSE FrameStep([f1 EXCEPT !.Locals[index + 1] = second])
         IN IF (indexed /\ ~ HasOperands(f, 1)) \/ ~ CanPop(f, 2) \/ index < 0
            THEN Panic
            ELSE store(popN(IF indexed THEN [f EXCEPT !.PC = @ + 1] ELSE f, 2),
                       Slot(f, 0), Slot(f, 1))

----------------------------------------------------------------------------
(* The operand stack rearranged: run.go                                     *)

POP == 87
POP2 == 88
DUP == 89
DUP_X1 == 90
DUP_X2 == 91
DUP2 == 92
DUP2_X1 == 93
DUP2_X2 == 94
SWAP == 95

\* Each opcode pops (or peeks at) the slots it names, then pushes; a pop below the
\* bottom of the stack or a push above its capacity is a Go panic.
Op_stack ==
    \E op \in {POP, POP2, DUP, DUP_X1, DUP_X2, DUP2, DUP2_X1, DUP2_X2, SWAP} :
      /\ Running(op)
      /\ LET f == Top
             top == Slot(f, 0)
             next == Slot(f, 1)
             third == Slot(f, 2)
             fourth == Slot(f, 3)
             push2(f1, a, b) == push(push(f1, a), b)
             push3(f1, a, b, c) == push(push2(f1, a, b), c)
             checked(pops, grows, f1) ==
                 IF ~ CanPop(f, pops) \/ ~ CanPush(f, grows) THEN Panic ELSE FrameStep(f1)
         IN CASE op = POP -> checked(1, 0, pop(f))
              [] op = POP2 -> checked(2, 0, pop(pop(f)))
              [] op = DUP -> checked(1, 1, push(f, peek(f)))
              [] op = DUP_X1 -> checked(2, 1, push3(popN(f, 2), top, next, top))
              [] op = DUP_X2 ->
                   checked(3, 1, push(push3(popN(f, 3), top, third, next), top))
              [] op = DUP2 ->
                   checked(2, 2, push3(pop(f), top, peek(pop(f)), top))
              [] op = DUP2_X1 ->
                   checked(3, 2, push3(push2(popN(f, 3), next, top), third, next, top))
              [] op = DUP2_X2 ->
                   checked(4, 2, push3(push3(popN(f, 4), next, top, fourth),
                                       third, next, top))
              [] OTHER -> checked(2, 0, push2(popN(f, 2), top, next))

----------------------------------------------------------------------------
(* Branches: run.go                                                         *)

IFEQ == 153
IFNE == 154
IFLT == 155
IFGE == 156
IFGT == 157
IFLE == 158
IF_ICMPEQ == 159
IF_ICMPNE == 160
IF_ICMPLT == 161
IF_ICMPGE == 162
IF_ICMPGT == 163
IF_ICMPLE == 164
IF_ACMPEQ == 165
IF_ACMPNE == 166
GOTO == 167
IFNULL == 198
IFNONNULL == 199

\* Every operand is popped with a type assertion to int64, those of the opcodes on
\* references included. The two bytes after the opcode are read only when the
\* branch is taken. A branch to before the code makes the next fetch of an opcode
\* panic.
Op_branch ==
    \E op \in (IFEQ..GOTO) \cup {IFNULL, IFNONNULL} :
      /\ Running(op)
      /\ LET f == Top
             pops == CASE op = GOTO -> 0
                       [] op \in IF_ICMPEQ..IF_ACMPNE -> 2
                       [] OTHER -> 1
             int16(x) == Wrap(x, 16)
             int32(x) == Wrap(x, IntBits)
             jumpTo == int16(int16(At(f.Meth, f.PC + 1) * 256) + At(f.Meth, f.PC + 2))
             value == Slot(f, 0).v
             val2 == Slot(f, 0).v
             val1 == Slot(f, 1).v
             taken ==
                 CASE op = IFEQ -> value = 0
                   [] op = IFNE -> value # 0
                   [] op = IFLT -> value < 0
                   [] op = IFGE -> value >= 0
                   [] op = IFGT -> value > 0
                   [] op = IFLE -> value <= 0
                   [] op = IF_ICMPEQ -> int32(val1) = int32(val2)
                   [] op = IF_ICMPNE -> int32(val1) # int32(val2)
                   [] op = IF_ICMPLT -> val1 < val2
                   [] op = IF_ICMPGE -> val1 >= val2
                   [] op = IF_ICMPGT -> int32(val1) > int32(val2)
                   [] op = IF_ICMPLE -> val1 <= val2
                   [] op = IF_ACMPEQ -> val1 = val2
                   [] op = IF_ACMPNE -> val1 # val2
                   [] op = GOTO -> TRUE
                   [] op = IFNULL -> value = 0
                   [] OTHER -> value # 0
             jump(f1) ==
                 IF taken
                 THEN IF ~ HasOperands(f, 2) \/ f.PC + jumpTo < 0
                      THEN Panic
                      ELSE FrameStep([f1 EXCEPT !.PC = f.PC + jumpTo - 1])
                 ELSE FrameStep([f1 EXCEPT !.PC = @ + 2])
         IN IF \/ ~ CanPop(f, pops)
               \/ pops >= 1 /\ ~ IsInt64(Slot(f, 0))
               \/ pops = 2 /\ ~ IsInt64(Slot(f, 1))
            THEN Panic
            ELSE jump(popN(f, pops))

----------------------------------------------------------------------------
(* Right shifts: run.go                                                     *)

ISHR == 122
LSHR == 123
IUSHR == 124
LUSHR == 125

\* Go's >> on an int64: the quotient by 2^count rounded toward minus infinity. A
\* count of 30 or more leaves no bit of a value of the model but its sign.
ShiftRight(x, count) ==
    IF count >= 30 THEN (IF x < 0 THEN -1 ELSE 0) ELSE x \div Pow2(count)

\* shiftBy & 0x1F and uint64(shiftBy) & 0x3f are the count modulo 32 and 64
Op_shiftRight ==
    \E op \in {ISHR, LSHR, IUSHR, LUSHR} :
      /\ Running(op)
      /\ LET f == Top
             long == op \in {LSHR, LUSHR}
             shiftBy == Slot(f, 0).v
             val1 == Slot(f, 1).v
             shifted ==
                 CASE op = ISHR ->
                        IF val1 < 0
                        THEN - ShiftRight(- val1, shiftBy % 32)
                        ELSE ShiftRight(val1, shiftBy % 32)
                   [] op = IUSHR -> ShiftRight(Abs(val1), shiftBy % 32)
                   [] OTHER -> ShiftRight(val1, shiftBy % 64)
         IN IF \/ ~ CanPop(f, IF long THEN 3 ELSE 2)
               \/ ~ IsInt64(Slot(f, 0))
               \/ ~ IsInt64(Slot(f, 1))
            THEN Panic
            ELSE IF long
                 THEN FrameStep(push(push(popN(f, 3), I64(shifted)), I64(shifted)))
                 ELSE FrameStep(push(popN(f, 2), I64(shifted)))

----------------------------------------------------------------------------
(* Narrowing conversions: run.go                                            *)

L2I == 136
I2B == 145
I2C == 146
I2S == 147

\* L2I shifts the long left and then right by the bits a long has more than an
\* int; int32() keeps the low bits of an int, uint16() the low 16 bits
Op_narrow ==
    \E op \in {L2I, I2B, I2C, I2S} :
      /\ Running(op)
      /\ LET f == Top
             high == LongBits - IntBits
             shiftLeft(x) == Wrap((x % Pow2(IntBits)) * Pow2(high), LongBits)
             negated(intVal, byteVal) ==
                 IF ~ (intVal > 0 /\ byteVal > 0) /\ ~ (intVal < 0 /\ byteVal < 0)
                 THEN - byteVal
                 ELSE byteVal
             converted(x) ==
                 CASE op = L2I -> ShiftRight(shiftLeft(x), high)
                   [] op = I2B -> negated(x, x % 256)
                   [] op = I2C -> x % 65536
                   [] OTHER -> Wrap(x, IntBits)
             pops == IF op = L2I THEN 2 ELSE 1
         IN IF ~ CanPop(f, pops) \/ ~ IsInt64(Slot(f, 0))
            THEN Panic
            ELSE FrameStep(push(popN(f, pops), I64(converted(Slot(f, 0).v))))

----------------------------------------------------------------------------
(* The dispatch switch: run.go                                              *)

IINC == 132
MULTIANEWARRAY == 197

\* case IINC: the local variable named by the first byte grows by the second byte,
\* sign-extended by byteToInt64
Op_IINC ==
    /\ Running(IINC)
    /\ LET f == Top
           byteToInt64(bite) == IF bite >= 128 THEN bite - 256 ELSE bite
           incremented(localVarIndex, increment) ==
               IF ~ InRange(f.Locals, localVarIndex) \/ ~ IsInt64(At(f.Locals, localVarIndex))
               THEN Panic
               ELSE FrameStep([f EXCEPT !.Locals[localVarIndex + 1] =
                                            I64(add(At(f.Locals, localVarIndex).v, increment)),
                                        !.PC = @ + 2])
       IN IF ~ HasOperands(f, 2)
          THEN Panic
          ELSE incremented(At(f.Meth, f.PC + 1), byteToInt64(At(f.Meth, f.PC + 2)))

\* default: a byte that is the label of no case of the switch. The labels are, by
\* value: NOP to DNEG, ISHL to LXOR, IINC, I2L to I2S, LCMP, DCMPL and DCMPG,
\* IFEQ to GOTO, IRETURN to INVOKESTATIC without PUTSTATIC, NEW to ARRAYLENGTH,
\* MULTIANEWARRAY, IFNULL and IFNONNULL.
Op_default ==
    /\ ctl = "run"
    /\ Len(fs) > 0
    /\ Top.PC < Len(Top.Meth)
    /\ At(Top.Meth, Top.PC) \notin
          (0..148) \cup {151, 152} \cup (IFEQ..GOTO) \cup (IRETURN..GETSTATIC)
             \cup (180..INVOKESTATIC) \cup (NEW_OP..ARRAYLENGTH)
             \cup {MULTIANEWARRAY, IFNULL, IFNONNULL}
    /\ ReturnError(Top)

----------------------------------------------------------------------------
(* Immediate operands: run.go                                               *)

BIPUSH == 16
SIPUSH == 17

\* BIPUSH pushes the byte after the opcode, sign-extended; SIPUSH pushes the two
\* bytes after it as a signed 16-bit value. Neither compares f.PC with the
\* length of the code before it indexes f.Meth.
Op_pushImmediate ==
    \E op \in {BIPUSH, SIPUSH} :
      /\ Running(op)
      /\ LET f == Top
             n == IF op = BIPUSH THEN 1 ELSE 2
             wbyte1 == At(f.Meth, f.PC + 1)
             wbyte2 == At(f.Meth, f.PC + 2)
             wint64 ==
                 IF op = BIPUSH
                 THEN IF wbyte1 >= 128 THEN wbyte1 - 256 ELSE wbyte1
                 ELSE IF wbyte1 >= 128
                      THEN wbyte1 * 256 + wbyte2 - 65536
                      ELSE wbyte1 * 256 + wbyte2
         IN IF ~ HasOperands(f, n) \/ ~ CanPush(f, 1)
            THEN Panic
            ELSE FrameStep(push([f EXCEPT !.PC = @ + n], I64(wint64)))

----------------------------------------------------------------------------
(* Arrays of several dimensions: run.go                                     *)

\* MULTIANEWARRAY: a ClassRef names the array type, the byte after the index is
\* the number of dimensions; their sizes are popped, the last one first. The
\* slice of sizes is cut after its first zero, and an array of the remaining one,
\* two or three sizes is made; with none left nothing is pushed.
\* object.Make2DimArray(n, m, t): n arrays of type t and length m, and an array
\* of references to them. A negative size cannot yield an array.
Op_MULTIANEWARRAY ==
    /\ Running(MULTIANEWARRAY)
    /\ LET f == Top
           f1 == [f EXCEPT !.PC = @ + 3]
           CPentry == At(f.CP.CpIndex, CPslotOf(f))
           arrayDesc == FetchUTF8stringFromCPEntryNumber(f.CP, At(f.CP.ClassRefs, CPentry.Slot))
           others == {i \in 1..Len(arrayDesc) : arrayDesc[i] # "["}
           rawArrayType ==
               IF others = {} THEN "" ELSE arrayDesc[CHOOSE i \in others : \A j \in others : j <= i]
           arrayType == CASE rawArrayType \in {"B", "Z"} -> "B"
                          [] rawArrayType \in {"F", "D"} -> "F"
                          [] rawArrayType = "L" -> "L"
                          [] OTHER -> "I"
           dimensionCount == At(f.Meth, f.PC + 3)
           popped == [i \in 1..dimensionCount |-> Slot(f, dimensionCount - i)]
           zeros == {i \in 1..dimensionCount : popped[i].v = 0}
           dimSizes ==
               IF zeros = {} THEN [i \in 1..dimensionCount |-> popped[i].v]
               ELSE LET z == CHOOSE i \in zeros : \A j \in zeros : i <= j
                    IN [i \in 1..(dimensionCount - z) |-> popped[z + i].v]
           refArray(ptrs) == [Make1DimArray("L", 0) EXCEPT !.Fields[1].Fvalue.v = ptrs]
           base == Len(heap)
           made ==
               CASE Len(dimSizes) = 1 -> <<Make1DimArray(arrayType, dimSizes[1])>>
                 [] Len(dimSizes) = 2 ->
                      [j \in 1..dimSizes[1] |-> Make1DimArray(arrayType, dimSizes[2])]
                        \o <<refArray([i \in 1..dimSizes[1] |-> Ptr(base + i)])>>
                 [] Len(dimSizes) = 3 ->
                      [j \in 1..(dimSizes[1] * (dimSizes[2] + 1)) |->
                          IF j % (dimSizes[2] + 1) = 0
                          THEN refArray([k \in 1..dimSizes[2] |->
                                            Ptr(base + j - dimSizes[2] - 1 + k)])
                          ELSE Make1DimArray(arrayType, dimSizes[3])]
                        \o <<refArray([i \in 1..dimSizes[1] |->
                                          Ptr(base + i * (dimSizes[2] + 1))])>>
                 [] OTHER -> <<>>
           create(f2) ==
               IF \E i \in 1..Len(dimSizes) : dimSizes[i] < 0
               THEN Panic
               ELSE /\ heap' = heap \o made
                    /\ fs' = [fs EXCEPT ![1] =
                                Advance(IF Len(dimSizes) = 0 THEN f2
                                        ELSE push(f2, Ptr(base + Len(made))))]
                    /\ UNCHANGED <<MethArea, bytesRequested, Statics, StaticsArray,
                                   clinitRuns, fatal, thrown, hostExits, ArrayAddressList,
                                   depth, ctl, initialized, nDirect, last>>
           sized ==
               IF ~ HasOperands(f, 3) THEN Panic
               ELSE IF dimensionCount > 3 THEN ReturnError(f1)
               ELSE IF \/ ~ CanPop(f, dimensionCount)
                       \/ \E i \in 1..dimensionCount : ~ IsInt64(popped[i])
                    THEN Panic
                    ELSE create(popN(f1, dimensionCount))
       IN IF ~ HasOperands(f, 2) \/ ~ InRange(f.CP.CpIndex, CPslotOf(f))
          THEN Panic
          ELSE IF CPentry.Type # "ClassRef"
               THEN ReturnError([f EXCEPT !.PC = @ + 2])
               ELSE IF ~ InRange(f.CP.ClassRefs, CPentry.Slot) THEN Panic ELSE sized

----------------------------------------------------------------------------
(* The Code attribute of a method: classloader/parserUtils.go               *)

\* the two bytes read with the low byte first
intFrom2Bytes_LittleEndian(bytes, pos) ==
    IF Len(bytes) < pos + 2
    THEN [err |-> TRUE, v |-> 0]
    ELSE [err |-> FALSE, v |-> At(bytes, pos + 1) * 256 + At(bytes, pos)]

\* two bytes, and four, from position pos (counted from 0), big-endian
intFrom2Bytes(bytes, pos) ==
    IF Len(bytes) < pos + 2
    THEN [err |-> TRUE, v |-> 0]
    ELSE [err |-> FALSE, v |-> (At(bytes, pos) * 256 + At(bytes, pos + 1)) % 65536]

intFrom4Bytes(bytes, pos) ==
    IF Len(bytes) < pos + 4
    THEN [err |-> TRUE, v |-> 0]
    ELSE LET value1 == At(bytes, pos) * 256 + At(bytes, pos + 1)
             value2 == At(bytes, pos + 2) * 256 + At(bytes, pos + 3)
         IN [err |-> FALSE, v |-> value1 * 65536 + value2]

\* a look-up that ends in a ClassFormatError, and one that ends in a Go panic
\* (an index out of range)
Cfe == [err |-> TRUE, panic |-> FALSE, v |-> -1]
OutOfRange == [err |-> FALSE, panic |-> TRUE, v |-> -1]

\* fetchUTF8slot answering with the index into the pool in place of the slot
fetchUTF8slot_Index(klass, index) ==
    IF index < 1 \/ index > klass.cpCount - 1 THEN Cfe
    ELSE IF ~ InRange(klass.cpIndex, index) THEN OutOfRange
    ELSE IF At(klass.cpIndex, index).entryType # "UTF8" THEN Cfe
    ELSE IF At(klass.cpIndex, index).slot < 0
            \/ At(klass.cpIndex, index).slot > Len(klass.utf8Refs) - 1 THEN Cfe
    ELSE [err |-> FALSE, panic |-> FALSE, v |-> index]

\* fetchUTF8slot taking the slot of an entry of any kind
fetchUTF8slot_AnyKind(klass, index) ==
    IF index < 1 \/ index > klass.cpCount - 1 THEN Cfe
    ELSE IF ~ InRange(klass.cpIndex, index) THEN OutOfRange
    ELSE IF At(klass.cpIndex, index).slot < 0
            \/ At(klass.cpIndex, index).slot > Len(klass.utf8Refs) - 1 THEN Cfe
    ELSE [err |-> FALSE, panic |-> FALSE, v |-> At(klass.cpIndex, index).slot]

\* fetchUTF8slot(klass, index): the slot in utf8Refs of the UTF8 entry at index
fetchUTF8slot(klass, index) ==
    IF index < 1 \/ index > klass.cpCount - 1 THEN Cfe
    ELSE IF ~ InRange(klass.cpIndex, index) THEN OutOfRange
    ELSE IF At(klass.cpIndex, index).entryType # "UTF8" THEN Cfe
    ELSE IF At(klass.cpIndex, index).slot < 0
            \/ At(klass.cpIndex, index).slot > Len(klass.utf8Refs) - 1 THEN Cfe
    ELSE [err |-> FALSE, panic |-> FALSE, v |-> At(klass.cpIndex, index).slot]

\* fetchUTF8string answering with the string of the first slot
fetchUTF8string_First(klass, index) ==
    IF index < 1 \/ index > klass.cpCount - 1 THEN [Cfe EXCEPT !.v = <<>>]
    ELSE IF ~ InRange(klass.cpIndex, index) THEN [OutOfRange EXCEPT !.v = <<>>]
    ELSE IF At(klass.cpIndex, index).entryType # "UTF8" THEN [Cfe EXCEPT !.v = <<>>]
    ELSE IF At(klass.cpIndex, index).slot < 0
            \/ At(klass.cpIndex, index).slot > Len(klass.utf8Refs) - 1
         THEN [Cfe EXCEPT !.v = <<>>]
    ELSE [err |-> FALSE, panic |-> FALSE, v |-> At(klass.utf8Refs, 0)]

\* fetchUTF8string(klass, index): the string of the UTF8 entry at index, "" on error
fetchUTF8string(klass, index) ==
    IF index < 1 \/ index > klass.cpCount - 1 THEN [Cfe EXCEPT !.v = <<>>]
    ELSE IF ~ InRange(klass.cpIndex, index) THEN [OutOfRange EXCEPT !.v = <<>>]
    ELSE IF At(klass.cpIndex, index).entryType # "UTF8" THEN [Cfe EXCEPT !.v = <<>>]
    ELSE IF At(klass.cpIndex, index).slot < 0
            \/ At(klass.cpIndex, index).slot > Len(klass.utf8Refs) - 1
         THEN [Cfe EXCEPT !.v = <<>>]
    ELSE [err |-> FALSE, panic |-> FALSE,
          v |-> At(klass.utf8Refs, At(klass.cpIndex, index).slot)]

\* fetchAttribute(klass, bytes, loc): one attribute read after position loc: the
\* index of its name, which must be a UTF8 entry of the class, its length and its
\* content, which is copied without comparing the length with the bytes that
\* are left; pos is the index of the last byte read
fetchAttribute(klass, bytes, loc) ==
    LET nameIndex == intFrom2Bytes(bytes, loc + 1)
        nameSlot == fetchUTF8slot(klass, nameIndex.v)
        length == intFrom4Bytes(bytes, loc + 3)
    IN IF nameIndex.err THEN [err |-> TRUE, panic |-> FALSE, pos |-> loc + 2]
       ELSE IF nameSlot.panic THEN [err |-> FALSE, panic |-> TRUE, pos |-> loc + 2]
       ELSE IF nameSlot.err THEN [err |-> TRUE, panic |-> FALSE, pos |-> loc + 2]
       ELSE IF length.err THEN [err |-> TRUE, panic |-> FALSE, pos |-> loc + 6]
       ELSE IF Len(bytes) < loc + 7 + length.v
            THEN [err |-> FALSE, panic |-> TRUE, pos |-> loc + 6]
            ELSE [err |-> FALSE, panic |-> FALSE,
                  attribute |-> [attrName |-> nameSlot.v,
                                 attrSize |-> length.v,
                                 attrContent |-> SubSeq(bytes, loc + 8, loc + 7 + length.v)],
                  pos |-> loc + 6 + length.v]

\* parseCodeAttribute(attrib, &meth, &klass): max_stack, max_locals, the code, the
\* exception table and the attributes of the Code attribute, read from the
\* content of the attribute; pos is the index of the last byte read.
parseCodeAttribute(att, klass) ==
    LET bytes == att.attrContent
        failed == [err |-> TRUE, panic |-> FALSE, codeAttr |-> <<>>]
        panicked == [err |-> FALSE, panic |-> TRUE, codeAttr |-> <<>>]
        exception(pos) ==
            [startPc |-> intFrom2Bytes(bytes, pos + 1).v,
             endPc |-> intFrom2Bytes(bytes, pos + 3).v,
             handlerPc |-> intFrom2Bytes(bytes, pos + 5).v,
             catchType |-> intFrom2Bytes(bytes, pos + 7).v]
        RECURSIVE attributes(_, _, _, _)
        attributes(ca, pos, n, acc) ==
            IF n = 0 THEN [err |-> FALSE, panic |-> FALSE,
                           codeAttr |-> [ca EXCEPT !.attributes = acc]]
            ELSE LET a == fetchAttribute(klass, bytes, pos)
                 IN IF a.err THEN failed
                    ELSE IF a.panic THEN panicked
                    ELSE attributes(ca, a.pos, n - 1, Append(acc, a.attribute))
        inner(ca, pos) ==
            LET attrCount == intFrom2Bytes(bytes, pos + 1)
            IN IF attrCount.err THEN failed
               ELSE attributes(ca, pos + 2, attrCount.v, <<>>)
        table(ca, pos) ==
            LET exceptionCount == intFrom2Bytes(bytes, pos + 1)
            IN IF exceptionCount.err \/ Len(bytes) < pos + 3 + 8 * exceptionCount.v
               THEN failed
               ELSE inner([ca EXCEPT !.exceptions =
                              [i \in 1..exceptionCount.v |-> exception(pos + 2 + 8 * (i - 1))]],
                          pos + 2 + 8 * exceptionCount.v)
        maxStack == intFrom2Bytes(bytes, 0)
        maxLocals == intFrom2Bytes(bytes, 2)
        codeLength == intFrom4Bytes(bytes, 4)
    IN IF maxStack.err \/ maxLocals.err \/ codeLength.err THEN failed
       ELSE IF Len(bytes) < 8 + codeLength.v THEN failed
       ELSE table([maxStack |-> maxStack.v, maxLocals |-> maxLocals.v,
                   code |-> SubSeq(bytes, 9, 8 + codeLength.v),
                   exceptions |-> <<>>, attributes |-> <<>>],
                  7 + codeLength.v)

\* the class of the parser's test: entries 1 and 3 of its pool are UTF8 entries
ParseCode ==
    /\ ctl = "parse"
    /\ LET klass == [cpCount |-> 4,
                     cpIndex |-> << [entryType |-> "Dummy", slot |-> 0],
                                    [entryType |-> "UTF8", slot |-> 0],
                                    [entryType |-> "ClassRef", slot |-> 0],
                                    [entryType |-> "UTF8", slot |-> 2] >>,
                     utf8Refs |-> <<Str("Exceptions"), Str("testMethod"),
                                    Str("java/io/IOException")>>]
           parsed(r) ==
               /\ ctl' = IF r.panic THEN "panic" ELSE IF r.err THEN "err" ELSE "parsed"
               /\ last' = [op |-> "parseCodeAttribute", name |-> last.name, err |-> r.err,
                           obj |-> r.codeAttr, returned |-> ~ r.panic]
       IN parsed(parseCodeAttribute([attrName |-> 1, attrSize |-> Len(last.obj),
                                     attrContent |-> last.obj], klass))
    /\ UNCHANGED <<MethArea, bytesRequested, Statics, StaticsArray, heap, clinitRuns,
                   fatal, thrown, hostExits, ArrayAddressList, fs, depth, initialized, nDirect>>

\* the content of a Code attribute, whole or cut short, is about to be parsed
InitParse ==
    /\ MethArea = <<>>
    /\ bytesRequested = <<>>
    /\ Statics = <<>>
    /\ StaticsArray = <<>>
    /\ ArrayAddressList = <<>>
    /\ heap = <<>>
    /\ clinitRuns = <<>>
    /\ fatal = <<>>
    /\ thrown = <<>>
    /\ initialized = {}
    /\ nDirect = 0
    /\ depth = 0
    /\ fs = <<>>
    /\ hostExits = FALSE
    /\ ctl = "parse"
    /\ LET u2s == {<<0, 4>>, <<0, 3>>, <<1, 0>>, <<0, 255>>}
           codes == {<<>>, <<17>>, <<17, 22>>, <<22, 17>>, <<177, 0, 255>>}
           tables == {<<0, 0>>, <<0, 1, 0, 0, 0, 1, 0, 1, 0, 0>>}
           inners == {<<0, 0>>}
                       \cup { <<0, 1, 0, n, 0, 0, 0, Len(c)>> \o c :
                                n \in {1, 2, 3, 9}, c \in {<<>>, <<7>>} }
           bodies == { s \o l \o <<0, 0, 0, Len(c)>> \o c \o t \o a :
                         s \in u2s, l \in u2s, c \in codes, t \in tables, a \in inners }
       IN \E b \in bodies : \E n \in 0..Len(b) :
             last = [op |-> "attribute", name |-> Str("Code"), err |-> FALSE,
                     obj |-> SubSeq(b, 1, n), returned |-> FALSE]

SpecParse == InitParse /\ [][ParseCode]_vars

----------------------------------------------------------------------------
(* The Exceptions and MethodParameters attributes of a method, and the      *)
(* look-ups of the parser                                                   *)

\* validateUnqualifiedName(name, isMethod = false): none of . ; [ / in the name
validateUnqualifiedName(name) ==
    \A i \in 1..Len(name) : name[i] \notin {".", ";", "[", "/"}

\* parseExceptionsMethodAttribute(attrib, &meth, &klass): the count, then one
\* index per exception: a ClassRef of the pool, whose UTF8 entry names the class;
\* the slot of that name in utf8Refs is appended to meth.exceptions
parseExceptionsMethodAttribute(attrib, meth, klass) ==
    LET bytes == attrib.attrContent
        exceptionCount == intFrom2Bytes(bytes, 0)
        failed(m) == [err |-> TRUE, meth |-> m]
        RECURSIVE exceptions(_, _, _)
        exceptions(m, pos, n) ==
            IF n = 0 THEN [err |-> FALSE, meth |-> m]
            ELSE LET cRefIndex == intFrom2Bytes(bytes, pos + 1)
                     whichClassRef == At(klass.cpIndex, cRefIndex.v)
                     exceptionName ==
                         fetchUTF8slot(klass, At(klass.classRefs, whichClassRef.slot))
                 IN IF cRefIndex.err \/ cRefIndex.v < 1 \/ cRefIndex.v > klass.cpCount - 1
                    THEN failed(m)
                    ELSE IF whichClassRef.entryType # "ClassRef"
                            \/ ~ InRange(klass.classRefs, whichClassRef.slot)
                    THEN failed(m)
                    ELSE IF exceptionName.err \/ exceptionName.panic THEN failed(m)
                    ELSE exceptions([m EXCEPT !.exceptions = Append(@, exceptionName.v)],
                                    pos + 2, n - 1)
    IN IF exceptionCount.err THEN failed(meth) ELSE exceptions(meth, 1, exceptionCount.v)

\* parseMethodParametersAttribute(attrib, &meth, &klass): a one-byte count, then
\* for each parameter the index of its name and its access flags; the name must
\* be an unqualified name
parseMethodParametersAttribute(attrib, meth, klass) ==
    LET bytes == attrib.attrContent
        failed(m) == [err |-> TRUE, meth |-> m]
        RECURSIVE parameters(_, _, _)
        parameters(m, pos, n) ==
            IF n = 0 THEN [err |-> FALSE, meth |-> m]
            ELSE LET paramNameIndex == intFrom2Bytes(bytes, pos + 1)
                     name == fetchUTF8string(klass, paramNameIndex.v)
                     accessFlags == intFrom2Bytes(bytes, pos + 3)
                 IN IF paramNameIndex.err THEN failed(m)
                    ELSE IF name.err \/ name.panic THEN failed(m)
                    ELSE IF ~ validateUnqualifiedName(name.v) THEN failed(m)
                    ELSE IF accessFlags.err THEN failed(m)
                    ELSE parameters([m EXCEPT !.parameters =
                                        Append(@, [name |-> name.v,
                                                   accessFlags |-> accessFlags.v])],
                                    pos + 4, n - 1)
    IN IF Len(bytes) < 1 THEN failed(meth) ELSE parameters(meth, 0, At(bytes, 0))

\* the class of the two tests, with more entries: what each index of its pool is
\*   1 UTF8 "MethodParameters"   2 ClassRef -> 4      3 UTF8 "param1"
\*   4 UTF8 java/io/IOException  5 ClassRef -> 3      6 UTF8 "a.b"
\*   7 UTF8 with a slot beyond utf8Refs               8 ClassRef -> 2, no UTF8
\*   9 UTF8 with a negative slot
AttrKlass ==
    [ cpCount |-> 10,
      cpIndex |-> << [entryType |-> "Dummy", slot |-> 0],
                     [entryType |-> "UTF8", slot |-> 0],
                     [entryType |-> "ClassRef", slot |-> 0],
                     [entryType |-> "UTF8", slot |-> 1],
                     [entryType |-> "UTF8", slot |-> 2],
                     [entryType |-> "ClassRef", slot |-> 1],
                     [entryType |-> "UTF8", slot |-> 3],
                     [entryType |-> "UTF8", slot |-> 4],
                     [entryType |-> "ClassRef", slot |-> 2],
                     [entryType |-> "UTF8", slot |-> -1] >>,
      utf8Refs |-> << Str("MethodParameters"), Str("param1"),
                      <<"java", "/", "io", "/", "IOException">>, <<"a", ".", "b">> >>,
      classRefs |-> <<4, 3, 2>> ]

\* the class of the test of the Exceptions attribute
TestKlass ==
    [ cpCount |-> 4,
      cpIndex |-> << [entryType |-> "Dummy", slot |-> 0],
                     [entryType |-> "UTF8", slot |-> 0],
                     [entryType |-> "ClassRef", slot |-> 0],
                     [entryType |-> "UTF8", slot |-> 2] >>,
      utf8Refs |-> <<Str("Exceptions"), Str("testMethod"), Str("java/io/IOException")>>,
      classRefs |-> <<3>> ]

EmptyMethod == [name |-> 2, exceptions |-> <<>>, parameters |-> <<>>]

AttrDone(op, err, panic, obj) ==
    /\ ctl' = IF panic THEN "panic" ELSE IF err THEN "err" ELSE "parsed"
    /\ last' = [op |-> op, name |-> last.name, err |-> err, obj |-> obj,
                returned |-> ~ panic]
    /\ UNCHANGED <<MethArea, bytesRequested, Statics, StaticsArray, heap, clinitRuns,
                   fatal, thrown, hostExits, ArrayAddressList, fs, depth, initialized, nDirect>>

\* the test of the Exceptions attribute: last.obj holds the class and the content
ParseExceptions ==
    /\ ctl = "attr"
    /\ last.op = "Exceptions"
    /\ LET parsed(r) == AttrDone("parseExceptionsMethodAttribute", r.err, FALSE, r.meth)
       IN parsed(parseExceptionsMethodAttribute(
                     [attrName |-> 1, attrSize |-> Len(last.obj.bytes),
                      attrContent |-> last.obj.bytes], EmptyMethod, last.obj.klass))

\* the test of the MethodParameters attribute
ParseMethodParameters ==
    /\ ctl = "attr"
    /\ last.op = "MethodParameters"
    /\ LET parsed(r) == AttrDone("parseMethodParametersAttribute", r.err, FALSE, r.meth)
       IN parsed(parseMethodParametersAttribute(
                     [attrName |-> 1, attrSize |-> Len(last.obj.bytes),
                      attrContent |-> last.obj.bytes], EmptyMethod, last.obj.klass))

\* a caller of the two utf8 look-ups, with the same class and index
FetchUTF8 ==
    /\ ctl = "attr"
    /\ last.op = "utf8"
    /\ LET fetched(str, slot) ==
               AttrDone("fetchUTF8", str.err \/ slot.err, str.panic \/ slot.panic,
                        [string |-> str, slot |-> slot])
       IN fetched(fetchUTF8string(last.obj.klass, last.obj.index),
                  fetchUTF8slot(last.obj.klass, last.obj.index))

\* a caller of fetchAttribute
FetchAttribute ==
    /\ ctl = "attr"
    /\ last.op = "attribute"
    /\ LET fetched(r) == AttrDone("fetchAttribute", r.err, r.panic, r)
       IN fetched(fetchAttribute(last.obj.klass, last.obj.bytes, last.obj.loc))

MaxExceptions == 3
MaxParameters == 2

\* an attribute, a look-up or a read of an attribute is about to happen
InitAttr ==
    /\ MethArea = <<>>
    /\ bytesRequested = <<>>
    /\ Statics = <<>>
    /\ StaticsArray = <<>>
    /\ ArrayAddressList = <<>>
    /\ heap = <<>>
    /\ clinitRuns = <<>>
    /\ fatal = <<>>
    /\ thrown = <<>>
    /\ initialized = {}
    /\ nDirect = 0
    /\ depth = 0
    /\ fs = <<>>
    /\ hostExits = FALSE
    /\ ctl = "attr"
    /\ LET RECURSIVE flat(_)
           flat(ss) == IF ss = <<>> THEN <<>> ELSE Head(ss) \o flat(Tail(ss))
           seqs(S, n) == UNION { [1..k -> S] : k \in 0..n }
           \* the Exceptions attribute: a count and up to MaxExceptions indices
           refs == seqs({<<0, 2>>, <<0, 5>>, <<0, 8>>, <<0, 3>>, <<0, 11>>}, MaxExceptions)
           exceptions ==
               { [klass |-> AttrKlass, bytes |-> <<0, n>> \o flat(r)] :
                   n \in 0..MaxExceptions, r \in refs }
                 \cup { [klass |-> TestKlass, bytes |-> b] :
                          b \in {<<0, 1, 0, 2>>, <<0, 1, 0, 1>>, <<0, 1, 0>>, <<0>>} }
           \* the MethodParameters attribute: a count and up to MaxParameters pairs
           pairs == seqs({ <<0, i, f, 0>> : i \in {1, 3, 4, 6, 7, 0}, f \in {128, 0} }
                           \cup {<<0, 3, 16>>}, MaxParameters)
           parameters ==
               { [klass |-> AttrKlass, bytes |-> <<k>> \o flat(p)] :
                   k \in 0..MaxParameters, p \in pairs }
                 \cup { [klass |-> AttrKlass, bytes |-> <<>>] }
           \* the look-ups: every index around the pool of each class
           lookups ==
               { [klass |-> k, index |-> i] :
                   k \in {AttrKlass, TestKlass}, i \in -2..(AttrKlass.cpCount + 1) }
           \* the reads: a name, a length and a content, whole or cut short
           attrs == { <<0, i>> \o <<0, 0, 0, n>> \o c :
                        i \in {1, 2, 12}, n \in 0..3, c \in {<<>>, <<7>>, <<7, 8>>, <<7, 8, 9>>} }
           reads ==
               { [klass |-> AttrKlass, loc |-> Len(lead) - 1,
                  bytes |-> SubSeq(lead \o a, 1, IF n > Len(lead \o a) THEN Len(lead \o a) ELSE n)] :
                   lead \in {<<>>, <<5>>}, a \in attrs, n \in 0..10 }
       IN \/ \E x \in exceptions :
                last = [op |-> "Exceptions", name |-> Str("Exceptions"), err |-> FALSE,
                        obj |-> x, returned |-> FALSE]
          \/ \E x \in parameters :
                last = [op |-> "MethodParameters", name |-> Str("MethodParameters"),
                        err |-> FALSE, obj |-> x, returned |-> FALSE]
          \/ \E x \in lookups :
                last = [op |-> "utf8", name |-> <<>>, err |-> FALSE,
                        obj |-> x, returned |-> FALSE]
          \/ \E x \in reads :
                last = [op |-> "attribute", name |-> <<>>, err |-> FALSE,
                        obj |-> x, returned |-> FALSE]

NextAttr ==
    \/ ParseExceptions
    \/ ParseMethodParameters
    \/ FetchUTF8
    \/ FetchAttribute

SpecAttr == InitAttr /\ [][NextAttr]_vars

----------------------------------------------------------------------------
(* The opcode specification: a frame with operands on its stack and values   *)
(* in its locals runs a short piece of bytecode over a heap of arrays.       *)

\* the state before the code runs. The heap holds int[2], float[1], Object[2],
\* byte[1], int[0] and an object that is no array, and after them what
\* instantiateClass has put there for Base, Kinds and Derived, in that order:
\* the string of Base.s, a Base, a Kinds, the string of Derived.s, a Derived
OpsSt ==
    LET fld(ftype, fvalue) == [Ftype |-> ftype, Fvalue |-> fvalue]
        static(type, value) == [Type |-> type, Value |-> value, Lazy |-> FALSE]
        key(classname, name) == FullFieldName(Str(classname), Str(name))
    IN [ MethArea |-> (Str("Base") :> "Loaded") @@ (Str("Derived") :> "Loaded")
                        @@ (Str("Kinds") :> "Loaded"),
         bytesRequested |-> (Str("Base") :> 1) @@ (Str("Derived") :> 1) @@ (Str("Kinds") :> 1),
         Statics |->
                (key("Base", "s") :> static(Desc_String, Ptr(7)))
             @@ (key("Base", "x") :> static(<<"I">>, I64(7)))
             @@ (key("Base", "g") :> static(<<"F">>, F64(24)))
             @@ (key("Derived", "s") :> static(Desc_String, Ptr(10)))
             @@ (key("Derived", "n") :> static(<<"J">>, I64(33554432)))
             @@ (key("Derived", "x") :> static(<<"I">>, I64(7)))
             @@ (key("Derived", "d") :> static(<<"D">>, F64(40)))
             @@ (key("Derived", "g") :> static(<<"F">>, F64(24)))
             @@ (key("Kinds", "ConstantValue") :> static(<<"J">>, I64(0))),
         clinitRuns |-> (Str("Base") :> 1) @@ (Str("Derived") :> 1),
         fatal |-> <<>>,
         heap |->
           << Make1DimArray("I", 2), Make1DimArray("F", 1), Make1DimArray("L", 2),
              Make1DimArray("B", 1), Make1DimArray("I", 0),
              NewObject(Str("Plain"), <<>>, <<>>, <<>>),
              NewObject(JavaLangString, <<>>, <<>>, Str("hello")),
              NewObject(Str("Base"),
                        << fld(<<"X", "I">>, I64(7)),
                           fld(<<"X">> \o Desc_String, Ptr(7)),
                           fld(<<"X", "F">>, F64(24)),
                           fld(<<"I">>, I64(0)) >>, <<>>, <<>>),
              NewObject(Str("Kinds"),
                        << fld(<<"B">>, I64(0)), fld(<<"C">>, I64(0)), fld(<<"I">>, I64(0)),
                           fld(<<"J">>, I64(0)), fld(<<"S">>, I64(0)), fld(<<"Z">>, I64(0)),
                           fld(<<"F">>, F64(0)), fld(<<"D">>, F64(0)),
                           fld(Desc_String, NilIface), fld(<<"[", "I">>, NilIface),
                           fld(<<"X", "J">>, I64(0)) >>, <<>>, <<>>),
              NewObject(JavaLangString, <<>>, <<>>, Str("hello")),
              NewObject(Str("Derived"), <<>>,
                           (Str("s") :> fld(<<"X">> \o Desc_String, Ptr(10)))
                        @@ (Str("n") :> fld(<<"X", "J">>, I64(33554432)))
                        @@ (Str("x") :> fld(<<"X", "I">>, I64(9)))
                        @@ (Str("k") :> fld(<<"I">>, I64(0)))
                        @@ (Str("r") :> fld(Desc_String, NilIface))
                        @@ (Str("d") :> fld(<<"X", "D">>, F64(40)))
                        @@ (Str("g") :> fld(<<"X", "F">>, F64(24))), <<>>) >> ]

\* OpsSt is what three calls of instantiateClass leave, starting from the six
\* objects and an empty registry
OpsStInstantiated ==
    LET st0 == [ MethArea |-> <<>>, bytesRequested |-> <<>>, Statics |-> <<>>,
                 clinitRuns |-> <<>>, fatal |-> <<>>,
                 heap |-> SubSeq(OpsSt.heap, 1, 6) ]
        after(classname, states) == {instantiateClass(classname, st).st : st \in states}
    IN after(Str("Derived"), after(Str("Kinds"), after(Str("Base"), {st0}))) = {OpsSt}

OpsHeap == OpsSt.heap

\* code, operand stack and locals of the frame
OpCases ==
    LET Case(code, stack) == [code |-> code, stack |-> stack, locals |-> <<>>]
        refs == {Ptr(i) : i \in 1..6} \cup {NilPtr, I64(0)}
        indexes == {-1, 0, 1, 2}
        values == {I64(7), I64(300), F64(FUnit), Ptr(6)}
        loads == {IALOAD, LALOAD, FALOAD, DALOAD, AALOAD, BALOAD, CALOAD, SALOAD}
        arrays ==
            { Case(<<op>>, <<r, I64(i)>>) : op \in loads, r \in refs, i \in indexes }
              \cup { Case(<<op>>, <<r, I64(i), v>>) :
                       op \in {IASTORE, FASTORE, AASTORE, BASTORE, CASTORE, SASTORE},
                       r \in refs, i \in indexes, v \in values }
              \cup { Case(<<op>>, <<r, I64(i), v, v>>) :
                       op \in {LASTORE, DASTORE}, r \in refs, i \in indexes, v \in values }
              \cup { Case(<<ARRAYLENGTH>>, <<r>>) : r \in refs }
              \cup { Case(<<NEWARRAY, t>> \o rest, <<I64(n)>>) :
                       t \in 3..11, n \in indexes,
                       rest \in {<<>>, <<ARRAYLENGTH>>, <<ICONST_1, IALOAD>>} }
              \cup { Case(<<ANEWARRAY, 0, 2>> \o rest, <<I64(n)>>) :
                       n \in indexes, rest \in {<<>>, <<ARRAYLENGTH>>, <<ICONST_1, AALOAD>>} }
              \cup { Case(<<NEWARRAY>>, <<I64(1)>>),
                     Case(<<ACONST_NULL, ARRAYLENGTH>>, <<>>),
                     Case(<<ACONST_NULL, ICONST_1, IALOAD>>, <<>>),
                     Case(<<ACONST_NULL, ICONST_1, ICONST_2, IASTORE>>, <<>>) }
        constants ==
            { Case(<<LDC, i>>, <<>>) : i \in 0..12 }
              \cup { Case(<<op, 0, i>>, <<>>) : op \in {LDC_W, LDC2_W}, i \in 0..12 }
              \cup { Case(<<LDC>>, <<>>), Case(<<LDC_W, 0>>, <<>>), Case(<<LDC2_W, 0>>, <<>>) }
        longs == {0, 1, -1, 6, MaxLong, MinLong}
        doubles == {0, FUnit, 2 * FUnit, 4 * FUnit, 0 - FUnit \div 2}
        wide ==
            { Case(<<op>>, <<I64(a), I64(a), I64(b), I64(b)>>) :
                op \in {LADD, LSUB, LMUL, LDIV, LREM, LAND, LOR, LXOR},
                a \in longs, b \in longs }
              \cup { Case(<<op>>, <<F64(a), F64(a), F64(b), F64(b)>>) :
                       op \in {DADD, DSUB, DMUL, DDIV, DREM},
                       a \in doubles, b \in doubles }
        \* six local variables, each holding a value of its own
        vars6 == [i \in 1..6 |-> IF i % 2 = 0 THEN I64(100 + i) ELSE F64(100 + i)]
        Local(code, stack) == [code |-> code, stack |-> stack, locals |-> vars6]
        locals ==
            { Local(<<st, n, ld, n>>, <<v, v>>) :
                st \in {LSTORE, DSTORE}, ld \in {LLOAD, DLOAD}, n \in 0..5,
                v \in {I64(6), I64(MinLong), F64(FUnit)} }
              \cup { Local(<<LSTORE_0 + n, LLOAD_0 + n>>, <<v, v>>) :
                       n \in 0..3, v \in {I64(6), I64(MinLong), F64(FUnit)} }
              \cup { Local(<<DSTORE_0 + n, DLOAD_0 + n>>, <<v, v>>) :
                       n \in 0..3, v \in {I64(6), F64(FUnit), F64(0 - FUnit)} }
              \cup { Local(<<op>>, <<>>) :
                       op \in LLOAD_0..LLOAD_3 \cup DLOAD_0..DLOAD_3 }
        slots == <<I64(11), F64(12), Ptr(1), I64(14), I64(15)>>
        stacks ==
            { Case(<<op>>, SubSeq(slots, 1, n)) :
                op \in {POP, POP2, DUP, DUP_X1, DUP_X2, DUP2, DUP2_X1, DUP2_X2, SWAP},
                n \in 0..5 }
        \* a branch at address 1, after a pop that takes a slot off the stack
        offsets == {0, 3, 4, 5, -1, -2, 32767}
        Branch(op, s, stack) ==
            Case(<<POP, op, (s % 65536) \div 256, s % 256, ICONST_1, ICONST_2>>,
                 stack \o <<I64(0)>>)
        ints == {I64(-1), I64(0), I64(1)}
        operands == {I64(0), NilPtr, Ptr(1), Ptr(6)}
        branches ==
            { Branch(op, s, <<v>>) : op \in IFEQ..IFLE, s \in offsets, v \in ints }
              \cup { Branch(op, s, <<v, w>>) :
                       op \in IF_ICMPEQ..IF_ICMPLE, s \in offsets, v \in ints, w \in ints }
              \cup { Branch(op, s, <<v, w>>) :
                       op \in {IF_ACMPEQ, IF_ACMPNE}, s \in offsets,
                       v \in operands, w \in operands }
              \cup { Branch(op, s, <<v>>) :
                       op \in {IFNULL, IFNONNULL}, s \in offsets, v \in operands }
              \cup { Branch(GOTO, s, <<>>) : s \in offsets }
              \cup { Case(<<ICONST_1, ANEWARRAY, 0, 2, op, 0, 3>>, <<>>) :
                       op \in {IFNULL, IFNONNULL} }
              \cup { Case(<<op>>, <<I64(0), I64(0)>>) :
                       op \in (IFEQ..GOTO) \cup {IFNULL, IFNONNULL} }
        counts == {0, 1, 3, 33, 65, -1}
        shifts ==
            { Case(<<op>>, <<I64(a), I64(s)>>) :
                op \in {ISHR, IUSHR}, a \in {0, 1, -1, 5, -5, 8, -8, MaxInt, MinInt},
                s \in counts }
              \cup { Case(<<op>>, <<I64(a), I64(a), I64(s)>>) :
                       op \in {LSHR, LUSHR},
                       a \in {0, 1, -1, 5, -5, 8, -8, MaxLong, MinLong}, s \in counts }
        narrowed ==
            { Case(<<op>>, <<I64(a)>>) :
                op \in {I2B, I2C, I2S},
                a \in {0, 1, 127, 128, 200, 255, 256, -1, -128, -129, 32767, 32768,
                       40000, 65535, 65536, -32768, -32769, MaxInt, MinInt} }
              \cup { Case(<<L2I>>, <<I64(a), I64(a)>>) :
                       a \in {0, 1, -1, MaxInt, MaxInt + 1, MinInt, MinInt - 1,
                              MaxLong, MinLong} }
        \* one byte of every value, after a push, and iinc on every local variable
        dispatched ==
            { Local(<<ICONST_1, b>>, <<I64(3), I64(4)>>) : b \in 0..255 }
              \cup { Local(<<IINC, n, d>>, <<I64(3)>>) : n \in 0..6, d \in {0, 1, 127, 128, 255} }
              \cup { Local(<<IINC, 1>>, <<>>) }
        bytes == {0, 1, 127, 128, 255}
        immediates ==
            { Case(<<BIPUSH, b>>, <<>>) : b \in bytes }
              \cup { Case(<<SIPUSH, b1, b2>>, <<>>) : b1 \in bytes, b2 \in bytes }
              \cup { Case(<<op>> \o rest, <<I64(3)>>) :
                       op \in {BIPUSH, SIPUSH}, rest \in {<<>>, <<1>>} }
        \* opcodes that take their operands from a stack that holds none
        emptied ==
            { Case(<<op>>, <<>>) :
                op \in {IALOAD, DALOAD, IASTORE, LASTORE, ARRAYLENGTH, LADD, DMUL, LDIV, LREM,
                        LSTORE_0, DSTORE_1, IFEQ, IF_ICMPEQ, IFNULL, ISHR, LUSHR, L2I, I2B} }
              \cup { Case(<<op, 4>>, <<>>) : op \in {NEWARRAY, LSTORE, DSTORE} }
              \cup { Case(<<ANEWARRAY, 0, 2>>, <<>>) }
        \* arrays of 0 to 4 dimensions of sizes 0 to 2, under a slot that stays
        sizes == {0, 1, 2}
        dimensions ==
            { Case(<<MULTIANEWARRAY, 0, c, Len(d)>> \o rest, <<I64(9)>> \o d) :
                c \in {27, 29, 31, 33},
                d \in {<<>>} \cup {<<I64(a)>> : a \in sizes}
                        \cup {<<I64(a), I64(b)>> : a \in sizes, b \in sizes}
                        \cup {<<I64(a), I64(b), I64(e)>> : a \in sizes, b \in sizes, e \in sizes}
                        \cup {<<I64(1), I64(1), I64(1), I64(1)>>},
                rest \in {<<>>, <<ARRAYLENGTH>>} }
              \cup { Case(<<MULTIANEWARRAY, 0, 26, 1>>, <<I64(9), I64(1)>>),
                     Case(<<MULTIANEWARRAY, 0, 27, 2>>, <<I64(9), I64(-1), I64(1)>>),
                     Case(<<MULTIANEWARRAY, 0, 27, 2>>, <<I64(1)>>),
                     Case(<<MULTIANEWARRAY, 0, 27, 1>>, <<Ptr(1)>>),
                     Case(<<MULTIANEWARRAY, 0, 27>>, <<I64(1)>>),
                     Case(<<MULTIANEWARRAY, 0, 99, 1>>, <<I64(1)>>) }
        \* putfield and getfield through one FieldRef, on each object of the heap
        stored == {I64(5), F64(FUnit), Ptr(1), NilPtr}
        fields ==
            { Case(<<PUTFIELD, 0, c, GETFIELD, 0, c>>, <<Ptr(o), Ptr(o), v>>) :
                c \in {21, 22, 23, 39}, o \in 6..Len(OpsHeap), v \in stored }
              \cup { Case(<<PUTFIELD, 0, 39, GETFIELD, 0, 39>>,
                          <<Ptr(o), Ptr(o), I64(7), I64(7)>>) : o \in 6..Len(OpsHeap) }
              \cup { Case(<<op, 0, c>>, <<NilPtr, I64(5)>>) :
                       op \in {GETFIELD, PUTFIELD}, c \in {20, 21, 99} }
              \cup { Case(<<op, 0>>, <<Ptr(7), I64(5)>>) : op \in {GETFIELD, PUTFIELD} }
    IN arrays \cup constants \cup wide \cup locals \cup stacks \cup branches \cup shifts
         \cup narrowed \cup dispatched \cup immediates \cup emptied \cup dimensions \cup fields

InitOps ==
    /\ MethArea = OpsSt.MethArea
    /\ bytesRequested = OpsSt.bytesRequested
    /\ Statics = OpsSt.Statics
    /\ StaticsArray = <<>>
    /\ ArrayAddressList = <<>>
    /\ heap = OpsHeap
    /\ clinitRuns = OpsSt.clinitRuns
    /\ fatal = OpsSt.fatal
    /\ thrown = <<>>
    /\ initialized = {Str("Base"), Str("Kinds"), Str("Derived")}
    /\ nDirect = 0
    /\ depth = 0
    /\ ctl = "start"
    /\ last = NoLast
    /\ hostExits \in BOOLEAN
    /\ \E c \in OpCases :
          fs = <<[LoadedFrame(c.code, c.stack, 6) EXCEPT !.Locals = c.locals]>>

NextOps ==
    \/ runThread
    \/ Op_ACONST_NULL
    \/ Op_ICONST_1
    \/ Op_ICONST_2
    \/ Op_xALOAD
    \/ Op_xASTORE
    \/ Op_ARRAYLENGTH
    \/ Op_NEWARRAY
    \/ Op_ANEWARRAY
    \/ Op_LDC
    \/ Op_LDC_W
    \/ Op_LDC2_W
    \/ Op_LDIV
    \/ Op_LREM
    \/ Op_wideBinary
    \/ Op_wideLoad
    \/ Op_wideStore
    \/ Op_stack
    \/ Op_branch
    \/ Op_shiftRight
    \/ Op_narrow
    \/ Op_IINC
    \/ Op_pushImmediate
    \/ Op_MULTIANEWARRAY
    \/ Op_fieldAccess
    \/ Op_default
    \/ FrameEnd
    \/ ThreadLoop

SpecOps == InitOps /\ [][NextOps]_vars

----------------------------------------------------------------------------
(* Properties of the array opcodes *)

\* the opcode the head frame is about to run
CurOp == At(Top.Meth, Top.PC)

\* the slots an array opcode pops: a value of one or two slots (stores), the
\* index (loads and stores) and the array reference
ValueSlots ==
    IF CurOp \in {LASTORE, DASTORE} THEN 2
    ELSE IF CurOp \in {IASTORE, FASTORE, AASTORE, BASTORE, CASTORE, SASTORE} THEN 1
    ELSE 0
IndexSlots == IF CurOp = ARRAYLENGTH THEN 0 ELSE 1
ArrayRef == Slot(Top, ValueSlots + IndexSlots)
ArrayIndex == Slot(Top, ValueSlots)

\* the element type of the arrays an opcode is for, and the kind of value it stores
ElemType ==
    CASE CurOp \in {IALOAD, LALOAD, CALOAD, SALOAD, IASTORE, LASTORE, CASTORE, SASTORE} -> "I"
      [] CurOp \in {FALOAD, DALOAD, FASTORE, DASTORE} -> "F"
      [] CurOp \in {AALOAD, AASTORE} -> "L"
      [] CurOp \in {BALOAD, BASTORE} -> "B"
ValueFits ==
    \/ ValueSlots = 0
    \/ Slot(Top, 0).t = (CASE ElemType = "F" -> "float64" [] ElemType = "L" -> "obj"
                           [] OTHER -> "int64")

\* an array load or store is about to run on an array of its type, with an index
AtArrayAccess ==
    /\ CanPop(Top, ValueSlots + 2)
    /\ IsInt64(ArrayIndex)
    /\ IsObject(ArrayRef)
    /\ ArrayRef # NilPtr
    /\ Backing(heap, ArrayRef, ElemType).ok
    /\ ValueFits

\* C11: an array load or store whose index is negative or not below the length of
\* the array raises ArrayIndexOutOfBoundsException and calls on_fatal(APP_EXCEPTION);
\* it pushes nothing and leaves every array as it was.
C11_IndexOutOfBounds ==
    [][/\ Op_xALOAD \/ Op_xASTORE
       /\ AtArrayAccess
       /\ ~ InRange(Backing(heap, ArrayRef, ElemType).elems, ArrayIndex.v)
       => /\ thrown' = Append(thrown, "ArrayIndexOutOfBoundsException")
          /\ fatal' = Append(fatal, APP_EXCEPTION)
          /\ heap' = heap
          /\ Top'.TOS = Top.TOS - (ValueSlots + 2)]_vars

\* C12: an array opcode whose array reference is the null that aconst_null pushes
\* raises NullPointerException and calls on_fatal(APP_EXCEPTION), and nothing else
\* goes wrong: no Go panic on the way to the null test, no array touched.
C12_NullArray ==
    [][/\ Op_xALOAD \/ Op_xASTORE \/ Op_ARRAYLENGTH
       /\ CanPop(Top, ValueSlots + IndexSlots + 1)
       /\ ArrayRef = I64(0)
       => /\ thrown' = Append(thrown, "NullPointerException")
          /\ fatal' = Append(fatal, APP_EXCEPTION)
          /\ heap' = heap]_vars

\* C13: newarray (with a type code of the class-file format) and anewarray with a
\* negative size on top of the stack raise NegativeArraySizeException and call
\* on_fatal(APP_EXCEPTION); no object is allocated, the global array list is
\* unchanged and nothing is pushed.  With a size n >= 0 they replace the size by
\* one reference to a new array of n elements, recorded at the head of the global
\* array list, and arraylength on an array pushes the number of its elements.
C13_NewArray ==
    [][/\ /\ Op_NEWARRAY \/ Op_ANEWARRAY
          /\ CanPop(Top, 1) /\ IsInt64(Slot(Top, 0))
          /\ CurOp = NEWARRAY => HasOperands(Top, 1) /\ At(Top.Meth, Top.PC + 1) \in 4..11
          => IF Slot(Top, 0).v < 0
             THEN /\ thrown' = Append(thrown, "NegativeArraySizeException")
                  /\ fatal' = Append(fatal, APP_EXCEPTION)
                  /\ heap' = heap
                  /\ ArrayAddressList' = ArrayAddressList
                  /\ Top'.TOS = Top.TOS - 1
             ELSE /\ thrown' = thrown /\ fatal' = fatal /\ ctl' = "run"
                  /\ Top'.TOS = Top.TOS
                  /\ Len(heap') = Len(heap) + 1
                  /\ Slot(Top', 0) = Ptr(Len(heap'))
                  /\ ArrayAddressList' = <<Ptr(Len(heap'))>> \o ArrayAddressList
                  /\ Len(heap'[Len(heap')].Fields[1].Fvalue.v) = Slot(Top, 0).v
       /\ /\ Op_ARRAYLENGTH
          /\ CanPop(Top, 1) /\ IsObject(Slot(Top, 0)) /\ Slot(Top, 0) # NilPtr
          /\ Len(heap[Slot(Top, 0).v].Fields) > 0
          => /\ ctl' = "run"
             /\ Top'.TOS = Top.TOS
             /\ Slot(Top', 0) = I64(Len(heap[Slot(Top, 0).v].Fields[1].Fvalue.v))]_vars

\* a negative size was refused, for newarray and for anewarray, by a host whose
\* on_fatal returns; and arraylength has measured an array made by newarray
C13_Witness ==
    /\ thrown = <<"NegativeArraySizeException">>
    /\ fatal = <<APP_EXCEPTION>>
    /\ ~ hostExits
    /\ Len(heap) = Len(OpsHeap)
    /\ Top.Meth = <<ANEWARRAY, 0, 2>>

LdcIndex == IF CurOp = LDC THEN At(Top.Meth, Top.PC + 1) ELSE CPslotOf(Top)
LdcEntry == At(Top.CP.CpIndex, LdcIndex)
AtConstant(types) ==
    /\ HasOperands(Top, IF CurOp = LDC THEN 1 ELSE 2)
    /\ LdcIndex \in 1..(Len(Top.CP.CpIndex) - 1)
    /\ LdcEntry.Type \in types
ConstantOf(entry) ==
    CASE entry.Type = "IntConst" -> I64(At(Pool.IntConsts, entry.Slot))
      [] entry.Type = "LongConst" -> I64(At(Pool.LongConsts, entry.Slot))
      [] entry.Type = "FloatConst" -> F64(At(Pool.Floats, entry.Slot))
      [] entry.Type = "DoubleConst" -> F64(At(Pool.Doubles, entry.Slot))
RetTypeOf(entry) ==
    IF entry.Type \in {"IntConst", "LongConst"} THEN IS_INT64 ELSE IS_FLOAT64

\* C14: ldc and ldc_w of an integer or float constant push one slot holding the
\* constant; ldc of a string constant pushes a reference to a new java/lang/String;
\* ldc2_w of a long or double constant pushes the constant twice; none of them
\* raises an exception or calls on_fatal; and the type field of the entry that
\* FetchCPentry returns tells which value field holds the constant.
C14_LoadConstant ==
    [][/\ /\ Op_LDC \/ Op_LDC_W
          /\ AtConstant({"IntConst", "FloatConst"})
          => /\ thrown' = thrown /\ fatal' = fatal /\ ctl' = "run"
             /\ Top'.TOS = Top.TOS + 1
             /\ Slot(Top', 0) = ConstantOf(LdcEntry)
       /\ /\ Op_LDC
          /\ AtConstant({"StringConst"})
          => /\ thrown' = thrown /\ fatal' = fatal /\ ctl' = "run"
             /\ Top'.TOS = Top.TOS + 1
             /\ Len(heap') = Len(heap) + 1
             /\ Slot(Top', 0) = Ptr(Len(heap'))
             /\ heap'[Len(heap')].Klass = JavaLangString
       /\ /\ Op_LDC2_W
          /\ AtConstant({"LongConst", "DoubleConst"})
          => /\ thrown' = thrown /\ fatal' = fatal /\ ctl' = "run"
             /\ Top'.TOS = Top.TOS + 2
             /\ Slot(Top', 0) = ConstantOf(LdcEntry)
             /\ Slot(Top', 1) = ConstantOf(LdcEntry)
       /\ /\ Op_LDC \/ Op_LDC_W \/ Op_LDC2_W
          /\ AtConstant({"IntConst", "LongConst", "FloatConst", "DoubleConst"})
          => FetchCPentry(Top.CP, LdcIndex).retType = RetTypeOf(LdcEntry)]_vars

WideBinaryStep == Op_wideBinary \/ Op_LDIV \/ Op_LREM
WideOperands ==
    /\ CanPop(Top, 4)
    /\ LET kind == IF CurOp \in {DADD, DSUB, DMUL, DDIV, DREM} THEN "float64" ELSE "int64"
       IN \A n \in 0..3 : Slot(Top, n).t = kind

\* C15: a long or double takes two slots of the operand stack, so a binary
\* arithmetic opcode on longs or doubles (ladd, lsub, lmul, ldiv, lrem, dadd, dsub,
\* dmul, ddiv, drem, land, lor, lxor) pops four slots and pushes two: in every
\* branch it takes, the depth of the stack goes down by exactly two.
C15_WideDepth ==
    [][WideBinaryStep /\ WideOperands => Top'.TOS = Top.TOS - 2]_vars

WideFloat == CurOp = DSTORE \/ CurOp \in DSTORE_0..DSTORE_3 \/ CurOp = DLOAD
                 \/ CurOp \in DLOAD_0..DLOAD_3
WideLocal ==
    CASE CurOp \in {LSTORE, DSTORE, LLOAD, DLOAD} -> At(Top.Meth, Top.PC + 1)
      [] CurOp \in LSTORE_0..LSTORE_3 -> CurOp - LSTORE_0
      [] CurOp \in DSTORE_0..DSTORE_3 -> CurOp - DSTORE_0
      [] CurOp \in LLOAD_0..LLOAD_3 -> CurOp - LLOAD_0
      [] OTHER -> CurOp - DLOAD_0
WideKind(x) == IF WideFloat THEN IsFloat64(x) ELSE IsInt64(x)
AtWideStore ==
    /\ CurOp \in {LSTORE, DSTORE} => HasOperands(Top, 1)
    /\ CanPop(Top, 2)
    /\ WideKind(Slot(Top, 0))
    /\ Slot(Top, 1) = Slot(Top, 0)
    /\ InRange(Top.Locals, WideLocal + 1)
AtWideLoad ==
    /\ CurOp \in {LLOAD, DLOAD} => HasOperands(Top, 1)
    /\ CanPush(Top, 2)
    /\ InRange(Top.Locals, WideLocal + 1)
    /\ WideKind(At(Top.Locals, WideLocal))

\* C16: lstore n and dstore n, with the index in the code or in the opcode
\* (_0 to _3), pop two slots and leave the value in the local variables n and
\* n + 1, every other local variable staying as it was; lload n and dload n push
\* the value of local variable n twice and change no local variable.
C16_WideLocals ==
    [][/\ Op_wideStore /\ AtWideStore
          => /\ Top'.TOS = Top.TOS - 2
             /\ \A i \in 0..(Len(Top.Locals) - 1) :
                   At(Top'.Locals, i) = IF i \in {WideLocal, WideLocal + 1}
                                        THEN Slot(Top, 0)
                                        ELSE At(Top.Locals, i)
       /\ Op_wideLoad /\ AtWideLoad
          => /\ Top'.TOS = Top.TOS + 2
             /\ Slot(Top', 0) = At(Top.Locals, WideLocal)
             /\ Slot(Top', 1) = At(Top.Locals, WideLocal)
             /\ Top'.Locals = Top.Locals]_vars

Live(f) == SubSeq(f.OpStack, 1, f.TOS + 1)
Below(f, n) == SubSeq(f.OpStack, 1, f.TOS + 1 - n)
StackNeeds ==
    CASE CurOp \in {POP, DUP} -> 1
      [] CurOp \in {POP2, DUP_X1, DUP2, SWAP} -> 2
      [] CurOp \in {DUP_X2, DUP2_X1} -> 3
      [] OTHER -> 4
StackGrows ==
    CASE CurOp \in {DUP, DUP_X1, DUP_X2} -> 1
      [] CurOp \in {DUP2, DUP2_X1, DUP2_X2} -> 2
      [] OTHER -> 0
\* the stack the Java Virtual Machine Specification prescribes, value1 on top
Rearranged(f) ==
    LET v1 == Slot(f, 0)
        v2 == Slot(f, 1)
        v3 == Slot(f, 2)
        v4 == Slot(f, 3)
    IN CASE CurOp = POP -> Below(f, 1)
         [] CurOp = POP2 -> Below(f, 2)
         [] CurOp = DUP -> Below(f, 1) \o <<v1, v1>>
         [] CurOp = DUP_X1 -> Below(f, 2) \o <<v1, v2, v1>>
         [] CurOp = DUP_X2 -> Below(f, 3) \o <<v1, v3, v2, v1>>
         [] CurOp = DUP2 -> Below(f, 2) \o <<v2, v1, v2, v1>>
         [] CurOp = DUP2_X1 -> Below(f, 3) \o <<v2, v1, v3, v2, v1>>
         [] CurOp = DUP2_X2 -> Below(f, 4) \o <<v2, v1, v4, v3, v2, v1>>
         [] OTHER -> Below(f, 2) \o <<v1, v2>>

BranchPops ==
    CASE CurOp = GOTO -> 0
      [] CurOp \in IF_ICMPEQ..IF_ACMPNE -> 2
      [] OTHER -> 1
OnReferences == CurOp \in {IF_ACMPEQ, IF_ACMPNE, IFNULL, IFNONNULL}
\* a reference on the operand stack: an object, or the null that aconst_null pushes
IsReference(x) == IsObject(x) \/ x = I64(0)
IsNull(x) == x = I64(0) \/ x = NilPtr
SameReference(x, y) == (IsNull(x) /\ IsNull(y)) \/ x = y
\* the signed 16-bit value of the two bytes after the opcode
BranchOffset ==
    LET u == At(Top.Meth, Top.PC + 1) * 256 + At(Top.Meth, Top.PC + 2)
    IN IF u >= 32768 THEN u - 65536 ELSE u
BranchTaken ==
    LET value == Slot(Top, 0)
        value2 == Slot(Top, 0)
        value1 == Slot(Top, 1)
    IN CASE CurOp = IFEQ -> value.v = 0
         [] CurOp = IFNE -> value.v # 0
         [] CurOp = IFLT -> value.v < 0
         [] CurOp = IFGE -> value.v >= 0
         [] CurOp = IFGT -> value.v > 0
         [] CurOp = IFLE -> value.v <= 0
         [] CurOp = IF_ICMPEQ -> value1.v = value2.v
         [] CurOp = IF_ICMPNE -> value1.v # value2.v
         [] CurOp = IF_ICMPLT -> value1.v < value2.v
         [] CurOp = IF_ICMPGE -> value1.v >= value2.v
         [] CurOp = IF_ICMPGT -> value1.v > value2.v
         [] CurOp = IF_ICMPLE -> value1.v <= value2.v
         [] CurOp = IF_ACMPEQ -> SameReference(value1, value2)
         [] CurOp = IF_ACMPNE -> ~ SameReference(value1, value2)
         [] CurOp = GOTO -> TRUE
         [] CurOp = IFNULL -> IsNull(value)
         [] OTHER -> ~ IsNull(value)
AtBranch ==
    /\ HasOperands(Top, 2)
    /\ CanPop(Top, BranchPops)
    /\ \A n \in 0..(BranchPops - 1) :
          IF OnReferences THEN IsReference(Slot(Top, n)) ELSE IsInt64(Slot(Top, n))
    /\ Top.PC + BranchOffset \in 0..Len(Top.Meth)

\* C18: a branch opcode at address p followed by the bytes b1 b2 continues at
\* p + s when it is taken, s being the signed 16-bit value of (b1, b2), and at
\* p + 3 when it is not; goto is always taken; ifnull, ifnonnull, if_acmpeq and
\* if_acmpne decide on their reference operands, references to objects included.
C18_Branch ==
    [][Op_branch /\ AtBranch
       => /\ ctl' = "run"
          /\ Top'.TOS = Top.TOS - BranchPops
          /\ Top'.PC = IF BranchTaken THEN Top.PC + BranchOffset ELSE Top.PC + 3]_vars

ShiftLong == CurOp \in {LSHR, LUSHR}
ShiftCount == Slot(Top, 0).v % (IF ShiftLong THEN 64 ELSE 32)
ShiftWidth == IF ShiftLong THEN LongBits ELSE IntBits
\* floor(a / 2^count) and ((a mod 2^width) div 2^count), IntBits and LongBits being
\* the widths of an int and of a long
SignPropagating(a, count) == IF count >= 30 THEN (IF a < 0 THEN -1 ELSE 0)
                             ELSE a \div Pow2(count)
ZeroFilling(a, count) == IF count >= 30 THEN 0
                         ELSE (a % Pow2(ShiftWidth)) \div Pow2(count)
AtShift ==
    /\ CanPop(Top, IF ShiftLong THEN 3 ELSE 2)
    /\ IsInt64(Slot(Top, 0))
    /\ IsInt64(Slot(Top, 1))
    /\ Slot(Top, 1).v \in (IF ShiftLong THEN MinLong..MaxLong ELSE MinInt..MaxInt)

\* C19: the right shifts mask their count (to 5 bits for an int, to 6 for a long);
\* ishr and lshr push floor(a / 2^count), propagating the sign; iushr and lushr
\* push ((a mod 2^width) div 2^count), filling with zeroes.
C19_RightShift ==
    [][Op_shiftRight /\ AtShift
       => Slot(Top', 0) = I64(IF CurOp \in {ISHR, LSHR}
                              THEN SignPropagating(Slot(Top, 1).v, ShiftCount)
                              ELSE ZeroFilling(Slot(Top, 1).v, ShiftCount))]_vars

\* the low bits of a, read as a signed and as an unsigned number
SignExtended(a, bits) == Wrap(a, bits)
ZeroExtended(a, bits) == a % Pow2(bits)
Truncated(a) ==
    CASE CurOp = I2B -> SignExtended(a, 8)
      [] CurOp = I2S -> SignExtended(a, 16)
      [] CurOp = I2C -> ZeroExtended(a, 16)
      [] OTHER -> SignExtended(a, IntBits)
AtNarrow ==
    /\ CanPop(Top, IF CurOp = L2I THEN 2 ELSE 1)
    /\ IsInt64(Slot(Top, 0))
    /\ Slot(Top, 0).v \in (IF CurOp = L2I THEN MinLong..MaxLong ELSE MinInt..MaxInt)

\* C20: the narrowing conversions truncate exactly: i2b pushes the low 8 bits of
\* the int sign-extended, i2s the low 16 bits sign-extended, i2c the low 16 bits
\* zero-extended, and l2i the low bits of the long that make an int, sign-extended.
C20_Narrowing ==
    [][Op_narrow /\ AtNarrow
       => /\ Slot(Top', 0) = I64(Truncated(Slot(Top, 0).v))
          /\ Top'.TOS = Top.TOS - (IF CurOp = L2I THEN 1 ELSE 0)]_vars

\* the opcodes of the interpreter's families, by value: constants, loads and
\* stores, array loads and stores, stack manipulation, arithmetic, shifts and
\* bitwise (0 to 131); conversions, comparisons, branches (133 to 167); returns,
\* field access, invocation (172 to 184); new and the arrays; ifnull, ifnonnull
ListedOpcodes ==
    (0..131) \cup (133..167) \cup (172..184) \cup (187..190) \cup {197, 198, 199}
\* a case of the switch has run
CaseRun ==
    \/ Op_ACONST_NULL \/ Op_ICONST_1 \/ Op_ICONST_2
    \/ Op_xALOAD \/ Op_xASTORE \/ Op_ARRAYLENGTH \/ Op_NEWARRAY \/ Op_ANEWARRAY
    \/ Op_LDC \/ Op_LDC_W \/ Op_LDC2_W \/ Op_LDIV \/ Op_LREM \/ Op_wideBinary
    \/ Op_wideLoad \/ Op_wideStore \/ Op_stack \/ Op_branch \/ Op_shiftRight
    \/ Op_narrow \/ Op_IINC \/ Op_pushImmediate \/ Op_MULTIANEWARRAY \/ Op_fieldAccess

\* C21: the byte at the program counter makes runFrame return the
\* invalid-bytecode error exactly when it is not an opcode of the interpreter's
\* families: a listed opcode is executed by its case, and any other byte returns
\* the error and leaves the operand stack and the local variables as they were.
C21_Dispatch ==
    [][/\ Op_default => /\ CurOp \notin ListedOpcodes
                        /\ Top'.OpStack = Top.OpStack /\ Top'.TOS = Top.TOS
                        /\ Top'.Locals = Top.Locals
       /\ CaseRun => CurOp \in ListedOpcodes]_vars

RefStep ==
    \/ Op_GETSTATIC \/ Op_fieldAccess
    \/ Op_INVOKEVIRTUAL \/ Op_INVOKESPECIAL \/ Op_INVOKESTATIC
WrongKind ==
    /\ HasOperands(Top, 2)
    /\ InRange(Top.CP.CpIndex, CPslotOf(Top))
    /\ At(Top.CP.CpIndex, CPslotOf(Top)).Type #
          (IF CurOp \in {GETSTATIC, GETFIELD, PUTFIELD} THEN "FieldRef" ELSE "MethodRef")

\* C22: getstatic, getfield, putfield, invokevirtual, invokespecial and
\* invokestatic whose constant-pool index names an entry of the wrong kind (not a
\* FieldRef for the field opcodes, not a MethodRef for the invocations) return an
\* error: no operand is popped, no frame is pushed, the statics stay as they were.
C22_WrongKind ==
    [][RefStep /\ WrongKind
       => /\ ctl' = "err"
          /\ Len(fs') = Len(fs)
          /\ Top'.TOS = Top.TOS /\ Top'.OpStack = Top.OpStack
          /\ Statics' = Statics /\ StaticsArray' = StaticsArray]_vars

\* the number of code bytes that follow the opcode as its operands
OperandBytes(op) ==
    CASE op \in {BIPUSH, LDC, LLOAD, DLOAD, LSTORE, DSTORE, NEWARRAY} -> 1
      [] op \in {SIPUSH, LDC_W, LDC2_W, IINC, ANEWARRAY} -> 2
      [] op \in (IFEQ..GOTO) \cup {IFNULL, IFNONNULL} -> 2
      [] OTHER -> 0
CutShort ==
    /\ ctl = "run" /\ Len(fs) > 0
    /\ Top.PC < Len(Top.Meth)
    /\ OperandBytes(CurOp) > 0
    /\ ~ HasOperands(Top, OperandBytes(CurOp))

\* C23: an opcode whose operand bytes reach beyond the end of the code makes
\* runFrame return an error; no byte at an index at or beyond the length of the
\* code is read.
C23_Truncated == [][CutShort /\ CaseRun => ctl' = "err"]_vars

\* the opcodes whose handler starts by taking a slot off the operand stack, or
\* by looking at the one on top
Popping ==
    (IALOAD..SALOAD) \cup (IASTORE..SASTORE) \cup {ARRAYLENGTH, NEWARRAY, ANEWARRAY}
      \cup {LADD, DADD, LSUB, DSUB, LMUL, DMUL, LDIV, DDIV, LREM, DREM, LAND, LOR, LXOR}
      \cup {LSTORE, DSTORE} \cup (LSTORE_0..LSTORE_3) \cup (DSTORE_0..DSTORE_3)
      \cup (POP..SWAP) \cup (IFEQ..IF_ACMPNE) \cup {IFNULL, IFNONNULL}
      \cup {ISHR, LSHR, IUSHR, LUSHR, L2I, I2B, I2C, I2S}
StackBounds == \A i \in 1..Len(fs) : -1 <= fs[i].TOS /\ fs[i].TOS < Len(fs[i].OpStack)

\* C24: an opcode that pops or peeks while the operand stack of its frame is
\* empty (TOS = -1) ends in an error of the interpreter, and the top-of-stack
\* index of every frame stays between -1 and the capacity of its stack.
C24_EmptyStack ==
    [][/\ CaseRun /\ CurOp \in Popping /\ Top.TOS = -1 => ctl' = "err"
       /\ StackBounds']_vars

\* runThread has returned nil to StartExec after main ended on a return opcode
ReturnedFromMain ==
    /\ ctl = "done"
    /\ depth = 0
    /\ last.op \in {"return", "ireturn", "lreturn", "freturn", "dreturn", "areturn", "resumed"}
    /\ ~ last.err

\* C25: when main and the methods it invokes end on a return opcode, runThread
\* ends, StartExec returns no error and no frame is left on the frame stack of
\* the thread.
C25_FrameStackEmpty == ReturnedFromMain => Len(fs) = 0

\* C26: instantiate with a name that begins with '[' makes an array object and
\* returns it without error; it requests no class bytes and does not need the
\* name to be in the method area.
C26_ArrayName ==
    [][\A c \in ArrayNames :
          InstantiateStep(c) =>
              /\ ~ last'.err
              /\ last'.obj # NilPtr
              /\ Len(heap') = Len(heap) + 1
              /\ bytesRequested' = bytesRequested]_vars

DimensionCount == At(Top.Meth, Top.PC + 3)
\* the size of dimension i, the first being the outermost and the last on top
DimSize(i) == Slot(Top, DimensionCount - i).v
AtMultiArray ==
    /\ HasOperands(Top, 3)
    /\ InRange(Top.CP.CpIndex, CPslotOf(Top))
    /\ At(Top.CP.CpIndex, CPslotOf(Top)).Type = "ClassRef"
    /\ DimensionCount <= 3 =>
          /\ DimensionCount >= 1
          /\ CanPop(Top, DimensionCount)
          /\ \A i \in 1..DimensionCount : IsInt64(Slot(Top, i - 1)) /\ Slot(Top, i - 1).v >= 0
\* the state has an array of the given length on top of the stack
ArrayOnTop(f, hp, length) ==
    /\ f.TOS >= 0
    /\ IsObject(Slot(f, 0))
    /\ Slot(f, 0).v \in 1..Len(hp)
    /\ Len(hp[Slot(f, 0).v].Fields) = 1
    /\ Len(hp[Slot(f, 0).v].Fields[1].Fvalue.v) = length

\* C27: multianewarray with at most three dimensions pops one int for each
\* dimension, the last dimension on top, and pushes one array reference; a
\* dimension of size zero discards the dimensions below it and keeps the ones
\* above it, so the array pushed has the length of the first dimension. With more
\* than three dimensions an error is returned and nothing is popped.
C27_MultiArray ==
    [][Op_MULTIANEWARRAY /\ AtMultiArray
       => IF DimensionCount > 3
          THEN /\ ctl' = "err"
               /\ Top'.TOS = Top.TOS /\ Top'.OpStack = Top.OpStack
          ELSE /\ ctl' = "run"
               /\ Top'.TOS = Top.TOS - DimensionCount + 1
               /\ \A i \in 1..Top.TOS + 1 - DimensionCount : Top'.OpStack[i] = Top.OpStack[i]
               /\ DimSize(1) # 0 => ArrayOnTop(Top', heap', DimSize(1))]_vars

\* the objects on the heap that instantiate has made, and the fields of one
Instances == {i \in 1..Len(heap) : heap[i].Klass \in DOMAIN RegistryClasses}
FieldsIn(obj) ==
    {obj.Fields[i] : i \in 1..Len(obj.Fields)}
      \cup {obj.FieldTable[n] : n \in DOMAIN obj.FieldTable}
\* the descriptor of the field, without the mark of a static
DescriptorOf(field) == IF field.Ftype[1] = "X" THEN Tail(field.Ftype) ELSE field.Ftype
IsDefault(field) ==
    CASE DescriptorOf(field)[1] \in {"L", "["} -> field.Fvalue = NilIface
      [] DescriptorOf(field)[1] \in {"B", "C", "I", "J", "S", "Z"} -> field.Fvalue = I64(0)
      [] DescriptorOf(field)[1] \in {"F", "D"} -> field.Fvalue = F64(0)
      [] OTHER -> FALSE
\* the class declares a field whose descriptor starts with none of the type characters
HasInvalidField(c) ==
    \E i \in 1..Len(Source[c].Fields) :
        At(Source[c].CP.Utf8Refs, Source[c].Fields[i].Desc)[1]
            \notin {"L", "[", "B", "C", "I", "J", "S", "Z", "F", "D"}

RoundTrip ==
    /\ Len(fs) > 0
    /\ Len(Top.Meth) = 6
    /\ Top.Meth[1] = PUTFIELD /\ Top.Meth[4] = GETFIELD
    /\ Top.Meth[3] = Top.Meth[6]
    /\ At(Top.CP.CpIndex, Top.Meth[3]).Type = "FieldRef"
Target == Top.OpStack[2]
StoredValue == Top.OpStack[3]
RefName ==
    LET ref == At(Top.CP.FieldRefs, At(Top.CP.CpIndex, Top.Meth[3]).Slot)
        nameAndType == At(Top.CP.NameAndTypes, At(Top.CP.CpIndex, ref.NameAndType).Slot)
    IN FetchUTF8stringFromCPEntryNumber(Top.CP, nameAndType.NameIndex)
\* the object is one that instantiate made and it has the field the FieldRef names
TargetHasField ==
    /\ Target.v \in Instances
    /\ \/ RefName \in DOMAIN heap[Target.v].FieldTable
       \/ /\ Len(heap[Target.v].Fields) > 0
          /\ \E i \in 1..Len(Source[heap[Target.v].Klass].Fields) :
                At(Pool.Utf8Refs, Source[heap[Target.v].Klass].Fields[i].Name) = RefName
FieldsChanged ==
    { <<i, j>> \in (1..Len(OpsHeap)) \X (1..11) :
        j <= Len(OpsHeap[i].Fields) /\ heap[i].Fields[j] # OpsHeap[i].Fields[j] }
      \cup { <<i, n>> \in (1..Len(OpsHeap)) \X DOMAIN heap[Len(OpsHeap)].FieldTable :
               n \in DOMAIN OpsHeap[i].FieldTable
                 /\ heap[i].FieldTable[n] # OpsHeap[i].FieldTable[n] }

\* C29: on an object made by instantiate, with its fields in order or by name,
\* putfield of a value followed by getfield through the same FieldRef pushes that
\* value, and putfield changes no other field.
C29_PutGet ==
    (RoundTrip /\ TargetHasField) =>
        /\ ctl \notin {"panic", "err"}
        /\ ctl = "done" => /\ peek(Top) = StoredValue
                           /\ Cardinality(FieldsChanged) <= 1
                           /\ Len(heap) = Len(OpsHeap)

\* the unsigned values at byte p of the content (counted from 1), big-endian
U2(b, p) == b[p] * 256 + b[p + 1]
U4(b, p) == U2(b, p) * 65536 + U2(b, p + 2)
\* the content is a whole Code attribute: the header, the code, the exception
\* table and the attributes, each named by a UTF8 entry, and nothing else
WellFormedCode(b) ==
    /\ Len(b) >= 8
    /\ Len(b) >= 12 + U4(b, 5)
    /\ LET n == U4(b, 5)
           e == U2(b, 9 + n)
       IN /\ Len(b) >= 12 + n + 8 * e
          /\ LET p == 11 + n + 8 * e
             IN \/ U2(b, p) = 0 /\ Len(b) = p + 1
                \/ /\ U2(b, p) = 1
                   /\ Len(b) >= p + 7
                   /\ U2(b, p + 2) \in {1, 3}
                   /\ Len(b) = p + 7 + U4(b, p + 4)

\* C30: parsing the content of a well-formed Code attribute yields max_stack
\* from its first two bytes, max_locals from the next two and, as the code, the
\* code_length bytes that follow the four bytes of code_length; with no exception
\* and no inner attribute the list of inner attributes is empty. No error occurs.
C30_CodeAttribute ==
    [][ParseCode /\ WellFormedCode(last.obj)
       => /\ ctl' = "parsed" /\ ~ last'.err
          /\ last'.obj.maxStack = U2(last.obj, 1)
          /\ last'.obj.maxLocals = U2(last.obj, 3)
          /\ Len(last'.obj.code) = U4(last.obj, 5)
          /\ \A i \in 1..Len(last'.obj.code) : last'.obj.code[i] = last.obj[8 + i]
          /\ Len(last.obj) = 12 + U4(last.obj, 5) => last'.obj.attributes = <<>>]_vars
\* the attribute body 00 04, 00 03, 00 00 00 02, 11 16, 00 00, 00 00 has been parsed
C30_Witness ==
    /\ ctl = "parsed"
    /\ last.op = "parseCodeAttribute"
    /\ last.obj = [maxStack |-> 4, maxLocals |-> 3, code |-> <<17, 22>>,
                   exceptions |-> <<>>, attributes |-> <<>>]

\* the entry of the pool at index i, and whether it is a UTF8 entry whose slot is
\* within utf8Refs
IsUtf8Entry(k, i) ==
    /\ i >= 1 /\ i < k.cpCount
    /\ k.cpIndex[i + 1].entryType = "UTF8"
    /\ k.cpIndex[i + 1].slot >= 0 /\ k.cpIndex[i + 1].slot < Len(k.utf8Refs)
\* index i designates a ClassRef that points to a UTF8 entry
IsClassRefEntry(k, i) ==
    /\ i >= 1 /\ i < k.cpCount
    /\ k.cpIndex[i + 1].entryType = "ClassRef"
    /\ k.cpIndex[i + 1].slot < Len(k.classRefs)
    /\ IsUtf8Entry(k, k.classRefs[k.cpIndex[i + 1].slot + 1])
\* the body is a count n and n indices of such ClassRefs, and nothing else
WellFormedExceptions(x) ==
    /\ Len(x.bytes) >= 2
    /\ Len(x.bytes) = 2 + 2 * U2(x.bytes, 1)
    /\ \A i \in 1..U2(x.bytes, 1) : IsClassRefEntry(x.klass, U2(x.bytes, 1 + 2 * i))
\* the utf8Refs slot of the class named by the i-th index of the body
ExceptionSlot(x, i) ==
    x.klass.cpIndex[x.klass.classRefs[x.klass.cpIndex[U2(x.bytes, 1 + 2 * i) + 1].slot + 1] + 1].slot

\* C31: parsing an Exceptions attribute whose body is a count n followed by n
\* indices of ClassRefs, each pointing to a UTF8 entry, returns no error and
\* appends exactly n entries to the exceptions of the method, in order, each the
\* utf8Refs slot of the name of the exception class.
C31_Exceptions ==
    [][ParseExceptions /\ WellFormedExceptions(last.obj)
       => /\ ctl' = "parsed" /\ ~ last'.err
          /\ Len(last'.obj.exceptions) = U2(last.obj.bytes, 1)
          /\ \A i \in 1..Len(last'.obj.exceptions) :
                last'.obj.exceptions[i] = ExceptionSlot(last.obj, i)]_vars
\* three exceptions have been parsed: IOException, param1, IOException by their slots
C31_Witness ==
    /\ ctl = "parsed"
    /\ last.op = "parseExceptionsMethodAttribute"
    /\ ~ last.err
    /\ last.obj.exceptions = <<2, 1, 2>>

\* the body is a one-byte count k and k pairs of a name index and flags, each
\* name index that of a UTF8 entry, and nothing else
WellFormedParameters(x) ==
    /\ Len(x.bytes) >= 1
    /\ Len(x.bytes) = 1 + 4 * x.bytes[1]
    /\ \A i \in 1..x.bytes[1] : IsUtf8Entry(x.klass, U2(x.bytes, 4 * i - 2))
ParameterName(x, i) ==
    x.klass.utf8Refs[x.klass.cpIndex[U2(x.bytes, 4 * i - 2) + 1].slot + 1]
Unqualified(name) == {name[i] : i \in 1..Len(name)} \cap {".", ";", "[", "/"} = {}

\* C32: parsing a MethodParameters attribute whose body is a one-byte count k
\* followed by k pairs (name index, access flags) appends exactly k parameters,
\* in order, each with the utf8 string at its name index and the given flags;
\* every stored name is an unqualified name, and a body with a name that is not
\* one is rejected with an error.
C32_MethodParameters ==
    [][ParseMethodParameters
       => /\ \A i \in 1..Len(last'.obj.parameters) :
                Unqualified(last'.obj.parameters[i].name)
          /\ WellFormedParameters(last.obj)
             => IF \A i \in 1..last.obj.bytes[1] : Unqualified(ParameterName(last.obj, i))
                THEN /\ ctl' = "parsed" /\ ~ last'.err
                     /\ Len(last'.obj.parameters) = last.obj.bytes[1]
                     /\ \A i \in 1..Len(last'.obj.parameters) :
                           /\ last'.obj.parameters[i].name = ParameterName(last.obj, i)
                           /\ last'.obj.parameters[i].accessFlags
                                = U2(last.obj.bytes, 4 * i)
                ELSE ctl' = "err" /\ last'.err]_vars
\* the parameters param1 with ACC_MANDATED and MethodParameters with no flag
C32_Witness ==
    /\ ctl = "parsed"
    /\ last.op = "parseMethodParametersAttribute"
    /\ ~ last.err
    /\ last.obj.parameters = << [name |-> Str("param1"), accessFlags |-> 32768],
                                [name |-> Str("MethodParameters"), accessFlags |-> 0] >>

\* C33: for a class whose cpIndex has cpCount entries and for every index,
\* fetchUTF8string and fetchUTF8slot return an error when the index is outside
\* [1, cpCount), when the entry is not a UTF8 entry or when its slot is outside
\* utf8Refs; otherwise fetchUTF8slot returns the slot s and fetchUTF8string returns
\* utf8Refs[s]. They fail on the same inputs and never index out of range.
C33_Utf8Lookup ==
    [][FetchUTF8
       => /\ ctl' # "panic"
          /\ last'.obj.string.err = last'.obj.slot.err
          /\ IF IsUtf8Entry(last.obj.klass, last.obj.index)
             THEN /\ ctl' = "parsed"
                  /\ last'.obj.slot.v = last.obj.klass.cpIndex[last.obj.index + 1].slot
                  /\ last'.obj.string.v = last.obj.klass.utf8Refs[last'.obj.slot.v + 1]
             ELSE ctl' = "err" /\ last'.obj.string.err]_vars
\* the look-up of entry 6 has answered with a.b and its slot 3
C33_Witness ==
    /\ ctl = "parsed"
    /\ last.op = "fetchUTF8"
    /\ last.obj.slot.v = 3
    /\ last.obj.string.v = <<"a", ".", "b">>

\* C38: fetchAttribute either returns an attribute whose content is the
\* attribute_length bytes that follow the 6-byte header, with a cursor advanced
\* by 6 + attribute_length, or fails with an error; a declared length beyond the
\* bytes that are left is an error, not a read past the end of the buffer.
C38_FetchAttribute ==
    [][FetchAttribute
       => \/ ctl' = "err" /\ last'.err
          \/ /\ ctl' = "parsed"
             /\ LET b == last.obj.bytes
                    loc == last.obj.loc
                    length == U4(b, loc + 4)
                IN /\ last'.obj.pos = loc + 6 + length
                   /\ loc + 7 + length <= Len(b) + 1
                   /\ last'.obj.attribute.attrContent
                        = [i \in 1..length |-> b[loc + 7 + i]]]_vars

FromBottom(s, k) == s[Len(s) - k + 1]
\* the same frame: its class, method, code and pool
SameFrame(f, g) ==
    /\ f.ClName = g.ClName /\ f.MethName = g.MethName
    /\ f.Meth = g.Meth /\ f.CP = g.CP

\* C35: the frame stack is balanced. While the thread runs its depth is the
\* number of invocations under way plus one; an invocation pushes exactly one
\* frame, on top, the frames below staying the same frames in the same order;
\* the return of an invocation that ended without error removes exactly the
\* frame on top, which is the one it pushed, and leaves the frames below as
\* they are, with the caller at its next instruction.
C35_FrameBalance ==
    [][/\ ctl' \in {"run", "ret"} => Len(fs') = depth' + 1
       /\ \A k \in 1..Len(fs) : k <= Len(fs') => SameFrame(FromBottom(fs', k), FromBottom(fs, k))
       /\ depth' = depth + 1
          => /\ Len(fs') = Len(fs) + 1
             /\ \A k \in 1..(Len(fs) - 1) : FromBottom(fs', k) = FromBottom(fs, k)
       /\ ctl = "ret" /\ depth' = depth - 1
          => /\ Len(fs') = Len(fs) - 1
             /\ ctl' = "run"
             /\ fs' = [Tail(fs) EXCEPT ![1].PC = @ + 1]]_vars
\* main has called m()V, which has called m()I; both have returned and main is
\* at its next instruction, alone on the frame stack
C35_Witness ==
    /\ ctl = "run"
    /\ depth = 0
    /\ Len(fs) = 1
    /\ last.op = "resumed"
    /\ Top.Meth = <<INVOKESTATIC, 0, MethodRefOf(6), RETURN>>
    /\ Top.PC = 3

\* the step is a return opcode handing a value to the caller
ValueReturned ==
    /\ ctl = "run" /\ ctl' = "ret"
    /\ Len(fs) >= 2
    /\ Top.PC < Len(Top.Meth)
    /\ At(Top.Meth, Top.PC) \in {IRETURN, LRETURN, FRETURN, DRETURN, ARETURN}
\* the caller's frame g is the frame f with the value pushed, once or twice
PushedOn(f, g, value) ==
    \E n \in {1, 2} :
       /\ g = [f EXCEPT !.TOS = f.TOS + n, !.OpStack = g.OpStack]
       /\ Len(g.OpStack) = Len(f.OpStack)
       /\ \A i \in 1..Len(f.OpStack) :
             g.OpStack[i] = IF i > f.TOS + 1 /\ i <= f.TOS + 1 + n THEN value
                            ELSE f.OpStack[i]

\* C36: from the push of a callee's frame to the return opcode of the callee,
\* no opcode run by the callee, or by what it invokes, changes the PC, the
\* locals or the operand stack of a frame below it; the one change made to the
\* caller is the push of the return value by a return opcode that returns one.
C36_CallerFrozen ==
    [][ctl # "ret"
       => \A k \in 1..(Len(fs) - 1) :
             IF k = Len(fs) - 1 /\ ValueReturned
             THEN PushedOn(FromBottom(fs, k), FromBottom(fs', k), peek(Top))
             ELSE FromBottom(fs', k) = FromBottom(fs, k)]_vars
\* m()I, called by main, has computed 1 + 2 on its own stack and its ireturn
\* has pushed 3 on main's, which is otherwise as the invocation left it
C36_Witness ==
    /\ ctl = "ret"
    /\ depth = 1
    /\ Len(fs) = 2
    /\ last.op = "ireturn"
    /\ fs[2].Meth = <<INVOKESTATIC, 0, MethodRefOf(0), RETURN>>
    /\ fs[2].PC = 2
    /\ fs[2].TOS = 0
    /\ fs[2].OpStack[1] = I64(3)

\* ---------------------------------------------------------------------------
\* The lazily created entry of getstatic (run.go, GETSTATIC)

\* the key "<class>.<field>" of the field reference the top frame is about to read
GetstaticKey == StaticKeyOf(Top.CP, At(Top.CP.CpIndex, CPslotOf(Top))).fieldName

\* a getstatic that has read through a field reference and pushed its value
GetstaticPushed ==
    /\ Running(GETSTATIC)
    /\ ctl' = "run"
    /\ last'.op = "getstatic"

\* C37: a getstatic through a field reference whose key is absent from the
\* statics table creates exactly one entry, under that key, appends one element
\* to the statics array and pushes exactly one value, the value of the new
\* entry; a getstatic that finds the entry it created earlier leaves the statics
\* table and the statics array as they are and pushes exactly one value, the
\* value of that entry, which is the value the first getstatic pushed.
C37_LazyStatic ==
    [][ GetstaticPushed =>
          /\ fs'[1].TOS = Top.TOS + 1
          /\ \A i \in 0..Top.TOS : At(fs'[1].OpStack, i) = At(Top.OpStack, i)
          /\ IF GetstaticKey \notin DOMAIN Statics
             THEN /\ DOMAIN Statics' = DOMAIN Statics \cup {GetstaticKey}
                  /\ \A n \in DOMAIN Statics : Statics'[n] = Statics[n]
                  /\ Len(StaticsArray') = Len(StaticsArray) + 1
                  /\ peek(fs'[1]) = Statics'[GetstaticKey].Value
             ELSE /\ Statics' = Statics
                  /\ StaticsArray' = StaticsArray
                  /\ Statics[GetstaticKey].Lazy
                       => peek(fs'[1]) = Statics[GetstaticKey].Value ]_vars

\* two getstatics of Base.x in a row have run: one entry, the same value twice
C37_Witness ==
    /\ Len(fs) = 1
    /\ Top.Meth = Instr(GETSTATIC, 21) \o Instr(GETSTATIC, 21)
    /\ Top.PC = 6
    /\ Top.TOS = 1
    /\ FullFieldName(Base, Str("x")) \in DOMAIN Statics
    /\ Statics[FullFieldName(Base, Str("x"))].Lazy
    /\ Len(StaticsArray) = 1
    /\ At(Top.OpStack, 0) = At(Top.OpStack, 1)
    /\ At(Top.OpStack, 1) = Statics[FullFieldName(Base, Str("x"))].Value

\* ---------------------------------------------------------------------------
\* The walk up the superclass chain (instantiate.go, lines 57-75)

\* the superclass chain of c leads to java/lang/Object through classes that have bytes
RECURSIVE ReachesObject(_)
ReachesObject(c) ==
    \/ c = JavaLangObject
    \/ c \in DOMAIN Source /\ ReachesObject(Source[c].Superclass)

\* the classes strictly between c and java/lang/Object
RECURSIVE Between(_)
Between(c) ==
    IF c = JavaLangObject \/ Source[c].Superclass = JavaLangObject
    THEN {}
    ELSE {Source[c].Superclass} \cup Between(Source[c].Superclass)

\* the names whose bytes a step has requested
RequestedBy(before, after) ==
    { n \in DOMAIN after : Requested(after, n) > Requested(before, n) }

\* C39: for every class C whose superclass chain is finite, instantiate(C) loads,
\* besides C, exactly the classes strictly between C and java/lang/Object, each
\* at most once, and none beyond java/lang/Object; for java/lang/Object itself
\* no superclass load is attempted and an object is returned.
C39_SuperWalk ==
    [][\A c \in {n \in DOMAIN Source : ReachesObject(n)} :
          InstantiateStep(c) =>
              /\ RequestedBy(bytesRequested, bytesRequested') \subseteq {c} \cup Between(c)
              /\ \A n \in DOMAIN bytesRequested' :
                    Requested(bytesRequested', n) <= Requested(bytesRequested, n) + 1
              /\ \A n \in Between(c) : MethAreaFetch(MethArea', n)
              /\ Len(fatal') = Len(fatal)
              /\ c = JavaLangObject => ~ last'.err /\ last'.obj # NilPtr]_vars

\* ---------------------------------------------------------------------------
\* The key of a static field (instantiate.go, lines 114-147 and 296-309)

\* the names of the static fields that class d declares
StaticFieldsOf(d) ==
    { At(Source[d].CP.Utf8Refs, Source[d].Fields[i].Name) :
         i \in { j \in 1..Len(Source[d].Fields) : Source[d].Fields[j].IsStatic } }

\* C40: a static field declared in class D is registered in the statics table
\* under the key "D.<field>" of its declaring class, also when the fields of D
\* are created while a subclass of D is instantiated: every entry that
\* instantiate has made is keyed by a class and a static field which that class
\* declares, and after a successful instantiate(C) every static field of C and
\* of the classes between C and java/lang/Object has its entry under the key of
\* the class that declares it.
C40_DeclaringKey ==
    /\ \A key \in DOMAIN Statics :
          ~ Statics[key].Lazy =>
              \E d \in DOMAIN Source : \E f \in StaticFieldsOf(d) :
                  key = FullFieldName(d, f)
    /\ (last.op = "instantiate" /\ ~ last.err /\ last.name \in DOMAIN Source) =>
          \A d \in {last.name} \cup Between(last.name) : \A f \in StaticFieldsOf(d) :
              FullFieldName(d, f) \in DOMAIN Statics

====
